---- MODULE Spec2Model ----
(***************************************************************************)
(* ha-ostrom-advanced: the self-scheduling timers of the price and the     *)
(* consumption coordinator (coordinator.py), the shared tick computation   *)
(* (utils.py), the set-up / unload of the integration (__init__.py), the   *)
(* API client (api.py), the processing of its responses, and the sensors   *)
(* (sensor.py, binary_sensor.py).                                          *)
(*                                                                         *)
(* Time is wall-clock time of one timezone without DST change, counted in  *)
(* units of 1/Sub second since local midnight of day 0.  All datetimes of  *)
(* one computation carry the same tzinfo, so Python compares and adds them *)
(* as naive wall-clock values, which is what the operators below do.       *)
(***************************************************************************)
EXTENDS Integers, Sequences, FiniteSets, TLC

VARIABLES
    clock,                  \* dt_util.now(): time of day, in units
    lat,                    \* units the clock advanced since the last timer deadline
    poll_interval_minutes,  \* [coordinator -> self._poll_interval_minutes]
    update_offset_seconds,  \* [coordinator -> self._update_offset_seconds]
    handles,                \* [coordinator -> sequence of the armed loop.call_later handles]
    update_timer,           \* [coordinator -> state of the handle self._update_timer refers to]
    pending,                \* [coordinator -> a refresh request is enqueued]
    pc,                     \* [coordinator -> position of _async_update_data]
    raised,                 \* [coordinator -> what the awaited client call returned or raised]
    outcome,                \* [coordinator -> how _async_update_data finished]
    setup,                  \* position of async_setup_entry
    contract_id,            \* entry.data.get(CONF_CONTRACT_ID, "")
    shutdown_requested,     \* [coordinator -> async_shutdown was called]
    unloaded,               \* async_unload_entry has run
    enqueue_failures,       \* times hass.async_create_task raised in a timer callback
    t_pc,                   \* position of the tick computation under SpecTick
    t_now,                  \* its dt_util.now()
    t_interval,             \* its interval_minutes
    t_offset,               \* its offset_seconds
    t_shared,               \* result of utils.calculate_next_update_time
    t_method,               \* result of the coordinators' _calculate_next_update_time
    utc_offset,             \* utcoffset() of the local timezone, in units
    request,                \* [coordinator -> (start_utc, end_utc) of its last client call]
    http,                   \* [coordinator -> status of the first and the retried HTTP response]
    body,                   \* [coordinator -> "data" of the provider's response]
    fetched,                \* [coordinator -> what the client call returned or raised]
    data,                   \* [coordinator -> coordinator.data]
    last_update_success,    \* [coordinator -> coordinator.last_update_success]
    cost,                   \* [is_today -> state of the cost sensor]
    k_fn,                   \* the function applied under SpecCalc ("input": none yet)
    k_slots,                \* its list of price slots
    k_entries,              \* its list of consumption entries
    k_now,                  \* its dt_util.now()
    k_result,               \* what the function returned or raised
    a_pc,                   \* position of the client call under SpecApi
    a_call,                 \* the refresh: coordinator, what started it, client calls made
    a_token,                \* the client's access token: "none", "valid" or "expired"
    a_sent,                 \* statuses of the responses to the requests the call sent
    a_auth,                 \* authentications the call made before / after a 401
    a_result,               \* what the call returned or raised
    s_pc,                   \* [coordinator -> position of its client call] under SpecShared
    s_token,                \* the shared client's access token: "none", "valid" or "expired"
    s_lock,                 \* holder of the client's _token_lock, or "free"
    s_header,               \* [coordinator -> Authorization header of its last request]
    s_auth,                 \* [coordinator -> token requests its call has made]
    s_result                \* [coordinator -> what its call returned or raised]

coordVars == <<clock, lat, poll_interval_minutes, update_offset_seconds, handles,
               update_timer, pending, pc, raised, outcome, setup,
               contract_id, shutdown_requested, unloaded, enqueue_failures>>
tickVars == <<t_pc, t_now, t_interval, t_offset, t_shared, t_method>>
dataVars == <<utc_offset, request, http, body, fetched, data, last_update_success, cost>>
calcVars == <<k_fn, k_slots, k_entries, k_now, k_result>>
apiVars == <<a_pc, a_call, a_token, a_sent, a_auth, a_result>>
sharedVars == <<s_pc, s_token, s_lock, s_header, s_auth, s_result>>
vars == <<coordVars, tickVars, dataVars, calcVars, apiVars, sharedVars>>

-----------------------------------------------------------------------------
(* Bounds                                                                  *)

\* clock resolution: units per second (2 = half seconds)
Sub == 2
\* units the clock may advance in single steps after a timer deadline
MaxLatency == 1
\* times the enqueueing of a refresh may fail in a timer callback
MaxEnqueueFailures == 1

-----------------------------------------------------------------------------
(* datetime                                                                *)

Minute == 60 * Sub
Hour == 60 * Minute
Day == 24 * Hour

HourOf(t) == (t % Day) \div Hour
MinuteOf(t) == (t % Hour) \div Minute
SecondOf(t) == (t % Minute) \div Sub

\* datetime(day 0, h, m, s) plus u units
At(h, m, s, u) == h * Hour + m * Minute + s * Sub + u

\* datetime.replace(hour=h, minute=m, second=s, microsecond=0) raises ValueError
\* unless every field is in its range
ValidFields(h, m, s) == h \in 0..23 /\ m \in 0..59 /\ s \in 0..59

Replace(t, h, m, s) == (t - (t % Day)) + At(h, m, s, 0)

Min(a, b) == IF a < b THEN a ELSE b
Max(a, b) == IF a > b THEN a ELSE b

-----------------------------------------------------------------------------
(* The tick computation                                                    *)

\* the check dropped: one interval is always added
EnsureFuture_always(now, next_time, interval_minutes) ==
    [time |-> next_time + interval_minutes * Minute, fallback |-> FALSE]

\* "if next_time <= now: next_time = next_time + timedelta(minutes=interval_minutes)"
EnsureFuture(now, next_time, interval_minutes) ==
    [time |-> IF next_time <= now THEN next_time + interval_minutes * Minute
              ELSE next_time,
     fallback |-> FALSE]

\* the except branch: logs "Time calculation error" and returns now + interval + offset
Fallback(now, interval_minutes, offset_seconds) ==
    [time |-> now + interval_minutes * Minute + offset_seconds * Sub,
     fallback |-> TRUE]

\* OstromPriceCoordinator._calculate_next_update_time and its verbatim copy
\* OstromConsumptionCoordinator._calculate_next_update_time
_calculate_next_update_time(now, interval_minutes, offset_seconds) ==
    LET minutes_past_hour == MinuteOf(now)
        interval_count == minutes_past_hour \div interval_minutes
        interval_start_minute == interval_count * interval_minutes
        interval_start_time ==
            Replace(now, HourOf(now), interval_start_minute, offset_seconds)
        next_minute == interval_start_minute + interval_minutes
    IN  IF ~ValidFields(HourOf(now), interval_start_minute, offset_seconds)
        THEN Fallback(now, interval_minutes, offset_seconds)
        ELSE IF now < interval_start_time
        THEN EnsureFuture(now, interval_start_time, interval_minutes)
        ELSE IF next_minute >= 60
        THEN IF ~ValidFields(HourOf(now) + 1, 0, offset_seconds)
             THEN Fallback(now, interval_minutes, offset_seconds)
             ELSE EnsureFuture(now, Replace(now, HourOf(now) + 1, 0, offset_seconds),
                               interval_minutes)
        ELSE IF ~ValidFields(HourOf(now), next_minute, offset_seconds)
             THEN Fallback(now, interval_minutes, offset_seconds)
             ELSE EnsureFuture(now, Replace(now, HourOf(now), next_minute, offset_seconds),
                               interval_minutes)

\* a shared function that skips the clamping of offset_seconds
calculate_next_update_time_unclamped(now, interval_minutes, offset_arg) ==
    _calculate_next_update_time(now, interval_minutes, offset_arg)

\* utils.calculate_next_update_time
calculate_next_update_time(now, interval_minutes, offset_arg) ==
    LET offset_seconds == Min(Max(0, offset_arg), 59)
        minutes_past_hour == MinuteOf(now)
        interval_count == minutes_past_hour \div interval_minutes
        interval_start_minute == interval_count * interval_minutes
        interval_start_time ==
            Replace(now, HourOf(now), interval_start_minute, offset_seconds)
        next_minute == interval_start_minute + interval_minutes
        next_hour == HourOf(now) + 1
    IN  IF ~ValidFields(HourOf(now), interval_start_minute, offset_seconds)
        THEN Fallback(now, interval_minutes, offset_seconds)
        ELSE IF now < interval_start_time
        THEN EnsureFuture(now, interval_start_time, interval_minutes)
        ELSE IF next_minute >= 60
        THEN IF next_hour >= 24
             THEN IF ~ValidFields(0, 0, offset_seconds)
                  THEN Fallback(now, interval_minutes, offset_seconds)
                  ELSE EnsureFuture(now, Replace(now, 0, 0, offset_seconds) + Day,
                                    interval_minutes)
             ELSE IF ~ValidFields(next_hour, 0, offset_seconds)
                  THEN Fallback(now, interval_minutes, offset_seconds)
                  ELSE EnsureFuture(now, Replace(now, next_hour, 0, offset_seconds),
                                    interval_minutes)
        ELSE IF ~ValidFields(HourOf(now), next_minute, offset_seconds)
             THEN Fallback(now, interval_minutes, offset_seconds)
             ELSE EnsureFuture(now, Replace(now, HourOf(now), next_minute, offset_seconds),
                               interval_minutes)

-----------------------------------------------------------------------------
(* The coordinators                                                        *)

Coordinators == {"price", "consumption"}

\* the values async_setup_entry hands to the constructors
PriceIntervals == {15, 60}
ConsumptionIntervals == {60}
Offsets == {15}
\* the contract id of the config entry: "" when none was entered
ContractIds == {"", "contract"}
\* dt_util.now() when async_setup_entry runs
StartTimes == {At(10, 7, 30, 0), At(10, 0, 0, 0), At(10, 0, 14, Sub - 1), At(23, 50, 0, 0)}

\* a set-up that creates the consumption coordinator without a contract id
Created_always(c) == TRUE

\* the coordinators async_setup_entry creates: "consumption_coordinator = None" and
\* "if contract_id: consumption_coordinator = OstromConsumptionCoordinator(...)"
Created(c) == c = "price" \/ contract_id # ""

NoError == [kind |-> "none", msg |-> ""]
\* what "await self._client.async_get_...()" and the processing after it can raise,
\* with its str(err)
Errors == {[kind |-> "CancelledError", msg |-> ""],
           [kind |-> "OstromAuthError", msg |-> "Invalid client credentials"],
           [kind |-> "OstromApiError", msg |-> "Rate limit exceeded"],
           [kind |-> "Exception", msg |-> "unsupported operand type(s)"]}
NoOutcome == [kind |-> "none", prefix |-> "", msg |-> ""]

\* the except CancelledError branch re-raises without re-arming
ExitPath_cancel_not_rearmed(exc) ==
    IF exc.kind = "none"
    THEN [kind |-> "result", prefix |-> "", msg |-> "", schedules |-> TRUE]
    ELSE IF exc.kind = "CancelledError"
    THEN [kind |-> "CancelledError", prefix |-> "", msg |-> exc.msg, schedules |-> FALSE]
    ELSE [kind |-> "UpdateFailed",
          prefix |-> IF exc.kind = "OstromAuthError" THEN "Authentication error"
                     ELSE IF exc.kind = "OstromApiError" THEN "API error"
                     ELSE "Unexpected error",
          msg |-> exc.msg, schedules |-> TRUE]

\* no except CancelledError branch: the cancellation ends in "except Exception"
ExitPath_cancel_wrapped(exc) ==
    IF exc.kind = "none"
    THEN [kind |-> "result", prefix |-> "", msg |-> "", schedules |-> TRUE]
    ELSE [kind |-> "UpdateFailed",
          prefix |-> IF exc.kind = "OstromAuthError" THEN "Authentication error"
                     ELSE IF exc.kind = "OstromApiError" THEN "API error"
                     ELSE "Unexpected error",
          msg |-> exc.msg, schedules |-> TRUE]

\* the UpdateFailed of the except OstromAuthError branch drops str(err)
ExitPath_auth_message_lost(exc) ==
    IF exc.kind = "none"
    THEN [kind |-> "result", prefix |-> "", msg |-> "", schedules |-> TRUE]
    ELSE IF exc.kind = "CancelledError"
    THEN [kind |-> "CancelledError", prefix |-> "", msg |-> exc.msg, schedules |-> TRUE]
    ELSE [kind |-> "UpdateFailed",
          prefix |-> IF exc.kind = "OstromAuthError" THEN "Authentication error"
                     ELSE IF exc.kind = "OstromApiError" THEN "API error"
                     ELSE "Unexpected error",
          msg |-> IF exc.kind = "OstromAuthError" THEN "" ELSE exc.msg,
          schedules |-> TRUE]

\* the success path returns without re-arming
ExitPath_result_not_rearmed(exc) ==
    IF exc.kind = "none"
    THEN [kind |-> "result", prefix |-> "", msg |-> "", schedules |-> FALSE]
    ELSE IF exc.kind = "CancelledError"
    THEN [kind |-> "CancelledError", prefix |-> "", msg |-> exc.msg, schedules |-> TRUE]
    ELSE [kind |-> "UpdateFailed",
          prefix |-> IF exc.kind = "OstromAuthError" THEN "Authentication error"
                     ELSE IF exc.kind = "OstromApiError" THEN "API error"
                     ELSE "Unexpected error",
          msg |-> exc.msg, schedules |-> TRUE]

\* the try/except of _async_update_data: how the call ends for what the body raised,
\* and whether that path calls self._schedule_next_update() first
ExitPath(exc) ==
    IF exc.kind = "none"
    THEN [kind |-> "result", prefix |-> "", msg |-> "", schedules |-> TRUE]
    ELSE IF exc.kind = "CancelledError"
    THEN [kind |-> "CancelledError", prefix |-> "", msg |-> exc.msg, schedules |-> TRUE]
    ELSE IF exc.kind = "OstromAuthError"
    THEN [kind |-> "UpdateFailed", prefix |-> "Authentication error", msg |-> exc.msg,
          schedules |-> TRUE]
    ELSE IF exc.kind = "OstromApiError"
    THEN [kind |-> "UpdateFailed", prefix |-> "API error", msg |-> exc.msg,
          schedules |-> TRUE]
    ELSE [kind |-> "UpdateFailed", prefix |-> "Unexpected error", msg |-> exc.msg,
          schedules |-> TRUE]

\* a handle of loop.call_later(delay, _safe_schedule_callback)
Handle(delay, origin) == [remaining |-> delay, origin |-> origin]

\* a _schedule_next_update that arms without cancelling
CancelExisting_never(c) == handles[c]

\* "if self._update_timer: self._update_timer.cancel()": the armed handles that are left
CancelExisting(c) ==
    IF update_timer[c] = "armed"
    THEN SubSeq(handles[c], 1, Len(handles[c]) - 1)
    ELSE handles[c]

\* delay_seconds of _schedule_next_update, in units
ScheduleDelay(now, interval_minutes, offset_seconds) ==
    LET next_update == _calculate_next_update_time(now, interval_minutes, offset_seconds).time
        delay == next_update - now
    IN  IF delay < Sub
        THEN (next_update + interval_minutes * Minute) - now
        ELSE delay

\* _schedule_next_update: cancel the referenced handle, arm a new one and refer to it
_schedule_next_update(c) ==
    /\ handles' = [handles EXCEPT ![c] =
           Append(CancelExisting(c),
                  Handle(ScheduleDelay(clock, poll_interval_minutes[c],
                                       update_offset_seconds[c]), "schedule"))]
    /\ update_timer' = [update_timer EXCEPT ![c] = "armed"]

\* "fallback_delay = self._poll_interval_minutes * 60", in units
fallback_delay(c) == poll_interval_minutes[c] * 60 * Sub

\* an except branch that only logs
RescheduleWithFallback_log_only(c, rest) == rest

\* the except branch of _safe_schedule_callback: the armed handles after it
RescheduleWithFallback(c, rest) == Append(rest, Handle(fallback_delay(c), "callback"))

Remove(seq, i) == SubSeq(seq, 1, i - 1) \o SubSeq(seq, i + 1, Len(seq))

\* _async_update_data returns or raises into its caller without suspending, so
\* nothing else runs while a coordinator is at "returned"
NoReturn == \A c \in Coordinators : pc[c] # "returned"

\* the loop runs _safe_schedule_callback of a due handle
_safe_schedule_callback(c) ==
    \E i \in 1..Len(handles[c]) :
        /\ NoReturn
        /\ handles[c][i].remaining = 0
        /\ \/ \* hass.async_create_task(self.async_request_refresh()) succeeds; a
              \* request made after async_shutdown is ignored
              /\ handles' = [handles EXCEPT ![c] = Remove(handles[c], i)]
              /\ update_timer' = [update_timer EXCEPT ![c] =
                     IF i = Len(handles[c]) /\ update_timer[c] = "armed"
                     THEN "fired" ELSE update_timer[c]]
              /\ pending' = [pending EXCEPT ![c] = ~shutdown_requested[c]]
              /\ UNCHANGED enqueue_failures
           \/ \* it raises: re-arm with the fallback delay
              /\ enqueue_failures < MaxEnqueueFailures
              /\ enqueue_failures' = enqueue_failures + 1
              /\ handles' = [handles EXCEPT ![c] =
                     RescheduleWithFallback(c, Remove(handles[c], i))]
              /\ update_timer' = [update_timer EXCEPT ![c] = "armed"]
              /\ UNCHANGED pending
        /\ UNCHANGED <<clock, lat, poll_interval_minutes, update_offset_seconds, pc,
                       raised, outcome, setup, shutdown_requested, unloaded,
                       contract_id, tickVars, dataVars, calcVars, apiVars, sharedVars>>

\* an entity asks for a refresh on demand (CoordinatorEntity.async_update)
async_request_refresh(c) ==
    /\ NoReturn
    /\ setup = "done"
    /\ Created(c)
    /\ ~shutdown_requested[c]
    /\ ~pending[c]
    /\ pending' = [pending EXCEPT ![c] = TRUE]
    /\ UNCHANGED <<clock, lat, poll_interval_minutes, update_offset_seconds, handles,
                   update_timer, pc, raised, outcome, setup, shutdown_requested,
                   unloaded, enqueue_failures,
                   contract_id, tickVars, dataVars, calcVars, apiVars, sharedVars>>

\* _async_update_data up to "await self._client.async_get_...": the host runs one
\* refresh of a coordinator at a time
_async_update_data_await(c) ==
    /\ NoReturn
    /\ pending[c]
    /\ pc[c] = "idle"
    /\ ~shutdown_requested[c]
    /\ pending' = [pending EXCEPT ![c] = FALSE]
    /\ pc' = [pc EXCEPT ![c] = "fetching"]
    /\ UNCHANGED <<clock, lat, poll_interval_minutes, update_offset_seconds, handles,
                   update_timer, raised, outcome, setup, shutdown_requested, unloaded,
                   enqueue_failures,
                   contract_id, tickVars, dataVars, calcVars, apiVars, sharedVars>>

\* _async_update_data from the await on: the body or one except branch, each of
\* which re-arms the timer and then returns or raises
_async_update_data_resume(c) ==
    \E exc \in {NoError} \cup Errors :
        /\ NoReturn
        /\ pc[c] = "fetching"
        /\ raised' = [raised EXCEPT ![c] = exc]
        /\ outcome' = [outcome EXCEPT ![c] =
               [kind |-> ExitPath(exc).kind, prefix |-> ExitPath(exc).prefix,
                msg |-> ExitPath(exc).msg]]
        /\ IF ExitPath(exc).schedules
           THEN _schedule_next_update(c)
           ELSE UNCHANGED <<handles, update_timer>>
        /\ pc' = [pc EXCEPT ![c] = "returned"]
        /\ UNCHANGED <<clock, lat, poll_interval_minutes, update_offset_seconds, pending,
                       setup, shutdown_requested, unloaded, enqueue_failures,
                       contract_id, tickVars, dataVars, calcVars, apiVars, sharedVars>>

\* the caller takes the result or the exception: async_setup_entry (first refresh)
\* or the host's refresh task
refresh_done(c) ==
    /\ pc[c] = "returned"
    /\ pc' = [pc EXCEPT ![c] = "idle"]
    /\ raised' = [raised EXCEPT ![c] = NoError]
    /\ outcome' = [outcome EXCEPT ![c] = NoOutcome]
    /\ IF setup = "price" /\ c = "price"
       THEN IF outcome[c].kind = "result"
            THEN IF Created("consumption")
                 THEN /\ setup' = "consumption"
                      /\ pending' = [pending EXCEPT !["consumption"] = TRUE]
                 ELSE /\ setup' = "done"
                      /\ UNCHANGED pending
            ELSE /\ setup' = "price_failed"
                 /\ UNCHANGED pending
       ELSE IF setup = "consumption" /\ c = "consumption"
       THEN /\ setup' = IF outcome[c].kind = "CancelledError"
                        THEN "consumption_cancelled" ELSE "done"
            /\ UNCHANGED pending
       ELSE UNCHANGED <<setup, pending>>
    /\ UNCHANGED <<clock, lat, poll_interval_minutes, update_offset_seconds, handles,
                   update_timer, shutdown_requested, unloaded, enqueue_failures,
                   contract_id, tickVars, dataVars, calcVars, apiVars, sharedVars>>

\* async_unload_entry: async_shutdown of both coordinators (the inherited one: the
\* classes define none), then the entry data is removed
async_unload_entry ==
    /\ NoReturn
    /\ setup = "done"
    /\ ~unloaded
    /\ shutdown_requested' = [c \in Coordinators |-> Created(c)]
    /\ pending' = [c \in Coordinators |-> FALSE]
    /\ unloaded' = TRUE
    /\ UNCHANGED <<clock, lat, poll_interval_minutes, update_offset_seconds, handles,
                   update_timer, pc, raised, outcome, setup, enqueue_failures,
                   contract_id, tickVars, dataVars, calcVars, apiVars, sharedVars>>

Remainings == UNION {{handles[c][i].remaining : i \in 1..Len(handles[c])} : c \in Coordinators}

Elapse(d) ==
    /\ clock' = (clock + d) % Day
    /\ handles' = [c \in Coordinators |->
           [i \in 1..Len(handles[c]) |->
               [handles[c][i] EXCEPT !.remaining = handles[c][i].remaining - d]]]

\* time passes, never past the deadline of an armed handle
Tick ==
    /\ NoReturn
    /\ \/ \* to the next deadline
          /\ Remainings # {}
          /\ \E d \in Remainings :
                /\ d > 0
                /\ \A r \in Remainings : d <= r
                /\ Elapse(d)
          /\ lat' = 0
       \/ \* one unit, while a deadline is not yet reached
          /\ lat < MaxLatency
          /\ \A r \in Remainings : r > 1
          /\ Elapse(1)
          /\ lat' = lat + 1
    /\ UNCHANGED <<poll_interval_minutes, update_offset_seconds, update_timer, pending,
                   pc, raised, outcome, setup, shutdown_requested, unloaded,
                   enqueue_failures,
                   contract_id, tickVars, dataVars, calcVars, apiVars, sharedVars>>

\* Python's None, where a dict, a list element or a datetime is expected
None == [none |-> TRUE]

\* no refresh has processed data: DataUpdateCoordinator starts with data None and
\* last_update_success True
DataIdle ==
    /\ utc_offset = 0
    /\ request = [c \in Coordinators |-> None]
    /\ http = [c \in Coordinators |-> None]
    /\ body = [c \in Coordinators |-> <<>>]
    /\ fetched = [c \in Coordinators |-> None]
    /\ data = [c \in Coordinators |-> None]
    /\ last_update_success = [c \in Coordinators |-> TRUE]
    /\ cost = [is_today \in BOOLEAN |-> [kind |-> "None", v |-> 0]]

\* no function of the sensors is being applied
CalcIdle ==
    /\ k_fn = "off"
    /\ k_slots = <<>>
    /\ k_entries = <<>>
    /\ k_now = 0
    /\ k_result = [kind |-> "None", v |-> 0]

\* no client call is under way
ApiIdle ==
    /\ a_pc = "off"
    /\ a_call = [coordinator |-> "price", trigger |-> "none", calls |-> 0]
    /\ a_token = "none"
    /\ a_sent = <<>>
    /\ a_auth = [before |-> 0, after |-> 0]
    /\ a_result = None

\* no call goes through the shared client
SharedIdle ==
    /\ s_pc = [c \in Coordinators |-> "off"]
    /\ s_token = "none"
    /\ s_lock = "free"
    /\ s_header = [c \in Coordinators |-> "none"]
    /\ s_auth = [c \in Coordinators |-> 0]
    /\ s_result = [c \in Coordinators |-> None]

TickIdle ==
    /\ t_pc = "off"
    /\ t_now = 0
    /\ t_interval = 1
    /\ t_offset = 0
    /\ t_shared = [time |-> 0, fallback |-> FALSE]
    /\ t_method = [time |-> 0, fallback |-> FALSE]

\* after the constructors, with the first refresh of the price coordinator requested
Init ==
    /\ clock \in StartTimes
    /\ lat = 0
    /\ \E p \in PriceIntervals, q \in ConsumptionIntervals :
          poll_interval_minutes = [c \in Coordinators |-> IF c = "price" THEN p ELSE q]
    /\ \E o \in Offsets : update_offset_seconds = [c \in Coordinators |-> o]
    /\ handles = [c \in Coordinators |-> <<>>]
    /\ update_timer = [c \in Coordinators |-> "None"]
    /\ pending = [c \in Coordinators |-> c = "price"]
    /\ pc = [c \in Coordinators |-> "idle"]
    /\ raised = [c \in Coordinators |-> NoError]
    /\ outcome = [c \in Coordinators |-> NoOutcome]
    /\ setup = "price"
    /\ contract_id \in ContractIds
    /\ shutdown_requested = [c \in Coordinators |-> FALSE]
    /\ unloaded = FALSE
    /\ enqueue_failures = 0
    /\ TickIdle
    /\ DataIdle
    /\ CalcIdle
    /\ ApiIdle
    /\ SharedIdle

Next ==
    \/ \E c \in Coordinators : _safe_schedule_callback(c)
    \/ \E c \in Coordinators : async_request_refresh(c)
    \/ \E c \in Coordinators : _async_update_data_await(c)
    \/ \E c \in Coordinators : _async_update_data_resume(c)
    \/ \E c \in Coordinators : refresh_done(c)
    \/ async_unload_entry
    \/ Tick

Spec == Init /\ [][Next]_vars

\* the steps the event loop takes for one coordinator
CoordinatorStep(c) ==
    \/ _safe_schedule_callback(c)
    \/ _async_update_data_await(c)
    \/ _async_update_data_resume(c)
    \/ refresh_done(c)

\* the event loop keeps running the due callbacks and the ready tasks of each
\* coordinator, a client call ends (it times out at the latest), and time goes on
Fairness ==
    /\ SF_vars(Tick)
    /\ \A c \in Coordinators : SF_vars(CoordinatorStep(c))

\* one set-up: shortly before midnight, prices every 60 minutes
InitLive ==
    /\ Init
    /\ clock = At(23, 50, 0, 0)
    /\ poll_interval_minutes["price"] = 60

LiveSpec == InitLive /\ [][Next]_vars /\ Fairness

-----------------------------------------------------------------------------
(* Properties of the coordinators (under Spec and LiveSpec)                *)

Armed(c) == Len(handles[c])

\* C1: every way a refresh can finish (a result, UpdateFailed after an
\* authentication error, an API error or an unexpected exception, a re-raised
\* cancellation) leaves the coordinator with exactly one armed timer when it
\* returns or raises
C1_OneTimerOnEveryExit ==
    \A c \in Coordinators :
        pc[c] = "returned" => Armed(c) = 1 /\ update_timer[c] = "armed"

\* a cancelled first refresh of the consumption coordinator has re-armed
C1_Witness ==
    /\ pc["consumption"] = "returned"
    /\ outcome["consumption"].kind = "CancelledError"
    /\ Armed("consumption") = 1

\* the first refresh of the coordinator has been requested
Started(c) ==
    c = "price" \/ (Created(c) /\ setup \in {"consumption", "done", "consumption_cancelled"})

LoopAlive(c) == Armed(c) >= 1 \/ pending[c] \/ pc[c] # "idle"

\* a step in which _safe_schedule_callback took its except branch
EnqueueFailed(c) == enqueue_failures' = enqueue_failures + 1 /\ handles'[c] # handles[c]

\* C2: before shutdown every coordinator that was started has an armed timer or a
\* refresh enqueued or in flight; a timer callback that fails to enqueue the refresh
\* arms a timer with a delay of poll_interval_minutes * 60 seconds; and every
\* coordinator attempts a refresh again and again unless the entry is unloaded
C2_PollingNeverDies ==
    /\ [](~unloaded => \A c \in Coordinators : Started(c) => LoopAlive(c))
    /\ [][\A c \in Coordinators :
             EnqueueFailed(c) =>
                 /\ Armed(c)' >= 1
                 /\ handles'[c][Len(handles'[c])].remaining =
                        poll_interval_minutes[c] * 60 * Sub]_vars
    /\ \A c \in Coordinators :
          []<>(unloaded \/ ~Started(c) \/ pc[c] = "fetching")

\* a timer armed by the except branch of the callback keeps the price loop going
C2_Witness ==
    /\ ~unloaded
    /\ enqueue_failures >= 1
    /\ Armed("price") = 1
    /\ handles["price"][1].origin = "callback"
    /\ ~pending["price"]
    /\ pc["price"] = "idle"

\* C3: after async_unload_entry no timer of either coordinator is armed
C3_NoTimerAfterUnload ==
    unloaded => \A c \in Coordinators : Armed(c) = 0

\* C4: a refresh cancelled while its fetch is in flight re-arms the timer and then
\* propagates CancelledError, never UpdateFailed or a result
C4_CancelRearmsThenPropagates ==
    \A c \in Coordinators :
        (pc[c] = "returned" /\ raised[c].kind = "CancelledError")
            => /\ outcome[c].kind = "CancelledError"
               /\ Armed(c) = 1
               /\ update_timer[c] = "armed"

C4_Witness ==
    /\ pc["price"] = "returned"
    /\ raised["price"].kind = "CancelledError"
    /\ outcome["price"].kind = "CancelledError"
    /\ Armed("price") = 1

ErrorPrefix(kind) ==
    IF kind = "OstromAuthError" THEN "Authentication error"
    ELSE IF kind = "OstromApiError" THEN "API error"
    ELSE "Unexpected error"

\* C5: a refresh whose fetch raises OstromAuthError, OstromApiError or another
\* exception raises UpdateFailed with the matching prefix and the original message,
\* the next tick is armed, and nothing but a result, UpdateFailed or CancelledError
\* leaves a refresh
C5_ErrorsWrapped ==
    \A c \in Coordinators :
        pc[c] = "returned"
            => /\ outcome[c].kind \in {"result", "UpdateFailed", "CancelledError"}
               /\ raised[c].kind \in {"OstromAuthError", "OstromApiError", "Exception"}
                    => /\ outcome[c].kind = "UpdateFailed"
                       /\ outcome[c].prefix = ErrorPrefix(raised[c].kind)
                       /\ outcome[c].msg = raised[c].msg
                       /\ Armed(c) = 1

C5_Witness ==
    /\ pc["price"] = "returned"
    /\ raised["price"] = [kind |-> "OstromAuthError", msg |-> "Invalid client credentials"]
    /\ outcome["price"] = [kind |-> "UpdateFailed", prefix |-> "Authentication error",
                           msg |-> "Invalid client credentials"]
    /\ Armed("price") = 1

\* now is in hour 23, at or after the start of the current interval, and the next
\* interval boundary is past minute 59
CrossesMidnight(c) ==
    LET interval_start_minute ==
            (MinuteOf(clock) \div poll_interval_minutes[c]) * poll_interval_minutes[c]
    IN  /\ HourOf(clock) = 23
        /\ clock >= Replace(clock, 23, interval_start_minute, update_offset_seconds[c])
        /\ interval_start_minute + poll_interval_minutes[c] >= 60

\* C8: a coordinator that schedules its next update in hour 23 across midnight arms
\* the tick 00:00:<offset> of the next day
C8_MidnightTick ==
    \A c \in Coordinators :
        (pc[c] = "returned" /\ CrossesMidnight(c))
            => /\ Armed(c) = 1
               /\ handles[c][1].remaining = (Day - clock) + update_offset_seconds[c] * Sub

-----------------------------------------------------------------------------
(* The tick computation on its own: both implementations applied to one    *)
(* (now, interval_minutes, offset_seconds)                                 *)

TickNows == {At(h, m, sec, u) : h \in {10, 23}, m \in 0..59,
                                sec \in {0, 15, 20, 30, 59}, u \in 0..(Sub - 1)}
TickIntervals == {1, 7, 15, 45, 60, 120}
TickOffsets == {-1, 0, 15, 59, 75}

\* no coordinator exists
CoordIdle ==
    /\ clock = 0
    /\ lat = 0
    /\ poll_interval_minutes = [c \in Coordinators |-> 1]
    /\ update_offset_seconds = [c \in Coordinators |-> 0]
    /\ handles = [c \in Coordinators |-> <<>>]
    /\ update_timer = [c \in Coordinators |-> "None"]
    /\ pending = [c \in Coordinators |-> FALSE]
    /\ pc = [c \in Coordinators |-> "idle"]
    /\ raised = [c \in Coordinators |-> NoError]
    /\ outcome = [c \in Coordinators |-> NoOutcome]
    /\ setup = "none"
    /\ contract_id = ""
    /\ shutdown_requested = [c \in Coordinators |-> FALSE]
    /\ unloaded = FALSE
    /\ enqueue_failures = 0

InitTick ==
    /\ CoordIdle
    /\ t_pc = "input"
    /\ t_now \in TickNows
    /\ t_interval \in TickIntervals
    /\ t_offset \in TickOffsets
    /\ t_shared = [time |-> 0, fallback |-> FALSE]
    /\ t_method = [time |-> 0, fallback |-> FALSE]
    /\ DataIdle
    /\ CalcIdle
    /\ ApiIdle
    /\ SharedIdle

call_calculate_next_update_time ==
    /\ t_pc = "input"
    /\ t_shared' = calculate_next_update_time(t_now, t_interval, t_offset)
    /\ t_pc' = "shared"
    /\ UNCHANGED <<t_now, t_interval, t_offset, t_method, coordVars, dataVars, calcVars, apiVars,
                   sharedVars>>

call__calculate_next_update_time ==
    /\ t_pc = "shared"
    /\ t_method' = _calculate_next_update_time(t_now, t_interval, t_offset)
    /\ t_pc' = "done"
    /\ UNCHANGED <<t_now, t_interval, t_offset, t_shared, coordVars, dataVars, calcVars, apiVars,
                   sharedVars>>

NextTick ==
    \/ call_calculate_next_update_time
    \/ call__calculate_next_update_time

SpecTick == InitTick /\ [][NextTick]_vars

-----------------------------------------------------------------------------
(* Properties of the tick computation (under SpecTick)                     *)

Clamp(offset) == Min(Max(0, offset), 59)

\* the tick of spec section 4.1 for a valid offset: the start of the current
\* interval if it is still ahead, else that start plus one interval
AlignedTick(now, interval_minutes, offset_seconds) ==
    LET interval_start ==
            Replace(now, HourOf(now),
                    (MinuteOf(now) \div interval_minutes) * interval_minutes,
                    offset_seconds)
    IN  IF now < interval_start
        THEN interval_start
        ELSE interval_start + interval_minutes * Minute

WithinOneInterval(r) ==
    ~r.fallback => t_now <= r.time /\ r.time - t_now <= t_interval * Minute

\* C6: for every now, interval_minutes >= 1 and offset_seconds in [0,59] the tick
\* computed by the shared function and by the coordinators' method is not before
\* now and at most interval_minutes minutes after it, unless the fallback path ran
C6_TickWithinOneInterval ==
    (t_pc = "done" /\ t_interval >= 1 /\ t_offset \in 0..59)
        => WithinOneInterval(t_shared) /\ WithinOneInterval(t_method)

\* both implementations return a tick exactly one interval after now
C6_Witness ==
    /\ t_pc = "done"
    /\ t_offset \in 0..59
    /\ ~t_shared.fallback /\ t_shared.time - t_now = t_interval * Minute
    /\ ~t_method.fallback /\ t_method.time - t_now = t_interval * Minute

\* C7: for every now, interval_minutes >= 1 and offset in [0,59] the next tick is
\* interval_start when now < interval_start and interval_start + interval_minutes
\* minutes otherwise, also for intervals that do not divide 60 or exceed 60
C7_TickIsAligned ==
    (t_pc = "done" /\ t_interval >= 1 /\ t_offset \in 0..59)
        => /\ t_shared.time = AlignedTick(t_now, t_interval, t_offset)
           /\ t_method.time = AlignedTick(t_now, t_interval, t_offset)

\* C9: an offset_seconds outside [0,59] is clamped before the tick is computed, in
\* the shared function and in the coordinators' method: the result is the one for
\* the clamped offset and the shared function does not take the fallback path
C9_OffsetClamped ==
    (t_pc = "done" /\ t_offset \notin 0..59)
        => /\ t_shared = calculate_next_update_time(t_now, t_interval, Clamp(t_offset))
           /\ ~t_shared.fallback
           /\ t_method = _calculate_next_update_time(t_now, t_interval, Clamp(t_offset))

-----------------------------------------------------------------------------
(* The API client (api.py)                                                 *)

\* a JSON value of a provider record: a number, null, or a key that is absent
Num(v) == [t |-> "num", v |-> v]
Null == [t |-> "null", v |-> 0]
Missing == [t |-> "missing", v |-> 0]

\* entry.get(key, 0)
GetOrZero(j) == IF j.t = "missing" THEN Num(0) ELSE j

\* the "date" of a provider record: an ISO timestamp in UTC ("2024-01-15T10:00:00.000Z",
\* given by its instant), or a key that is absent, null, a number or no timestamp
IsoDate(utc) == [kind |-> "iso", utc |-> utc]
BadDate(kind) == [kind |-> kind, utc |-> 0]

\* what a client call returns ("ok" with the list) or raises; status_code 0 is None
ClientResult(kind, msg, status_code, list) ==
    [kind |-> kind, msg |-> msg, status_code |-> status_code, data |-> list]

\* f"HTTP error {err.status}: {err.message}"
HttpErrorMessage(status) ==
    IF status = 404 THEN "HTTP error 404: Not Found"
    ELSE IF status = 429 THEN "HTTP error 429: Too Many Requests"
    ELSE "HTTP error 500: Internal Server Error"

\* the branches of _async_request on the status of one response that is not 401
StatusResult(status) ==
    IF status = 404
    THEN ClientResult("OstromApiError", "Resource not found: ", 404, <<>>)
    ELSE IF status = 429
    THEN ClientResult("OstromApiError", "Rate limit exceeded", 0, <<>>)
    ELSE IF status # 200
    THEN ClientResult("OstromApiError", "API request failed with status 500", 0, <<>>)
    ELSE ClientResult("json", "", 0, <<>>)

\* OstromApiClient._async_request: a first 401 refreshes the token and retries once;
\* the retried response goes through raise_for_status(), whose ClientResponseError
\* the except branch turns into an OstromApiError without status_code
_async_request(first, retry) ==
    IF first = 401
    THEN IF retry = 401
         THEN ClientResult("OstromAuthError", "Authentication failed after refresh", 0, <<>>)
         ELSE IF retry >= 400
         THEN ClientResult("OstromApiError", HttpErrorMessage(retry), 0, <<>>)
         ELSE ClientResult("json", "", 0, <<>>)
    ELSE StatusResult(first)

\* OstromApiClient.async_get_spot_prices: the records with total_price added, in
\* cents (the division by 100 is a change of unit)
async_get_spot_prices(first, retry, list) ==
    LET result == _async_request(first, retry)
    IN  IF result.kind # "json"
        THEN result
        ELSE IF \E i \in 1..Len(list) :
                    \/ list[i].grossKwhPrice.t = "null"
                    \/ list[i].grossKwhTaxAndLevies.t = "null"
        THEN ClientResult("TypeError", "unsupported operand type(s)", 0, <<>>)
        ELSE ClientResult("ok", "", 0,
                 [i \in 1..Len(list) |->
                     [date |-> list[i].date,
                      grossKwhPrice |-> list[i].grossKwhPrice,
                      grossKwhTaxAndLevies |-> list[i].grossKwhTaxAndLevies,
                      total_price |-> Num(GetOrZero(list[i].grossKwhPrice).v
                                          + GetOrZero(list[i].grossKwhTaxAndLevies).v)]])

\* OstromApiClient.async_get_energy_consumption
async_get_energy_consumption(first, retry, list) ==
    LET result == _async_request(first, retry)
    IN  IF result.kind = "OstromApiError" /\ result.status_code = 404
        THEN ClientResult("ok", "", 0, <<>>)
        ELSE IF result.kind # "json"
        THEN result
        ELSE ClientResult("ok", "", 0, list)

-----------------------------------------------------------------------------
(* The processing of a response in _async_update_data (coordinator.py)     *)

\* dt_util.start_of_local_day()
start_of_local_day(now) == now - (now % Day)

\* x.astimezone(dt_util.UTC).replace(tzinfo=None)
ToNaiveUtc(local, tz) == local - tz

\* x.date() of a local datetime
DateOf(t) == t \div Day

\* datetime.fromisoformat(slot_start_str.replace("Z", "+00:00")).astimezone(local_tz)
\* inside "try ... except (ValueError, TypeError): continue": an absent key is "" and
\* no timestamp (ValueError, skipped); None and a number have no replace()
\* (AttributeError, not caught here)
ParseDate(date, tz) ==
    IF date.kind = "iso" THEN [kind |-> "ok", start |-> date.utc + tz]
    ELSE IF date.kind \in {"missing", "unparseable"} THEN [kind |-> "skip", start |-> 0]
    ELSE [kind |-> "AttributeError", start |-> 0]

\* str(err) of that AttributeError
AttributeErrorMessage(date) ==
    IF date.kind = "null"
    THEN "'NoneType' object has no attribute 'replace'"
    ELSE "'int' object has no attribute 'replace'"

\* every record on or after the day's midnight belongs to the day
SameDate_not_before(slot_start, day_start) == slot_start >= day_start

\* "slot_start.date() == today_start.date()"
SameDate(slot_start, day_start) == DateOf(slot_start) = DateOf(day_start)

\* a slot covers every later instant
CoversNow_no_end(slot_start, slot_end, now) == slot_start <= now

\* "slot_start <= now < slot_end"
CoversNow(slot_start, slot_end, now) == slot_start <= now /\ now < slot_end

\* one pass of the loop of OstromPriceCoordinator._async_update_data
PriceEntry(entry, now, tz, acc) ==
    LET parsed == ParseDate(entry.date, tz)
        slot_start == parsed.start
        slot_end == slot_start + Hour
        today_start == start_of_local_day(now)
        tomorrow_start == today_start + Day
        slot == [start |-> slot_start, end |-> slot_end,
                 total_price |-> GetOrZero(entry.total_price).v]
    IN  IF parsed.kind = "AttributeError"
        THEN [acc EXCEPT !.error = AttributeErrorMessage(entry.date)]
        ELSE IF parsed.kind = "skip"
        THEN acc
        ELSE IF \/ GetOrZero(entry.grossKwhPrice).t = "null"
                \/ GetOrZero(entry.grossKwhTaxAndLevies).t = "null"
        THEN [acc EXCEPT !.error = "unsupported operand type(s)"]
        ELSE [today_slots |->
                  IF SameDate(slot_start, today_start)
                  THEN Append(acc.today_slots, slot) ELSE acc.today_slots,
              tomorrow_slots |->
                  IF ~SameDate(slot_start, today_start)
                     /\ SameDate(slot_start, tomorrow_start)
                  THEN Append(acc.tomorrow_slots, slot) ELSE acc.tomorrow_slots,
              current_slot |->
                  IF CoversNow(slot_start, slot_end, now) THEN slot ELSE acc.current_slot,
              error |-> ""]

RECURSIVE PriceLoop(_, _, _, _, _)
PriceLoop(raw_data, i, now, tz, acc) ==
    IF i > Len(raw_data) \/ acc.error # ""
    THEN acc
    ELSE PriceLoop(raw_data, i + 1, now, tz, PriceEntry(raw_data[i], now, tz, acc))

\* one pass of the loop of OstromConsumptionCoordinator._async_update_data
ConsumptionEntry(entry, now, tz, acc) ==
    LET parsed == ParseDate(entry.date, tz)
        slot_start == parsed.start
        today_start == start_of_local_day(now)
        yesterday_start == today_start - Day
        consumption_entry == [start |-> slot_start, end |-> slot_start + Hour,
                              kwh |-> GetOrZero(entry.kWh)]
    IN  IF parsed.kind = "AttributeError"
        THEN [acc EXCEPT !.error = AttributeErrorMessage(entry.date)]
        ELSE IF parsed.kind = "skip"
        THEN acc
        ELSE [yesterday |->
                  IF SameDate(slot_start, yesterday_start)
                  THEN Append(acc.yesterday, consumption_entry) ELSE acc.yesterday,
              today |->
                  IF ~SameDate(slot_start, yesterday_start)
                     /\ SameDate(slot_start, today_start)
                  THEN Append(acc.today, consumption_entry) ELSE acc.today,
              error |-> ""]

RECURSIVE ConsumptionLoop(_, _, _, _, _)
ConsumptionLoop(raw_data, i, now, tz, acc) ==
    IF i > Len(raw_data) \/ acc.error # ""
    THEN acc
    ELSE ConsumptionLoop(raw_data, i + 1, now, tz,
                         ConsumptionEntry(raw_data[i], now, tz, acc))

\* list.sort(key=lambda x: x["start"]): ascending and stable, so an element comes
\* after the elements with a smaller start and the earlier ones with the same start
SortByStart(list) ==
    LET rank(i) == Cardinality({j \in 1..Len(list) :
                                   \/ list[j].start < list[i].start
                                   \/ list[j].start = list[i].start /\ j <= i})
    IN  [p \in 1..Len(list) |-> list[CHOOSE i \in 1..Len(list) : rank(i) = p]]

\* the body of OstromPriceCoordinator._async_update_data after the await: the
\* result dict, or the message of the exception the loop raised
PriceResult(raw_data, now, tz) ==
    LET acc == PriceLoop(raw_data, 1, now, tz,
                         [today_slots |-> <<>>, tomorrow_slots |-> <<>>,
                          current_slot |-> None, error |-> ""])
    IN  [error |-> acc.error,
         result |-> [today_slots |-> SortByStart(acc.today_slots),
                     tomorrow_slots |-> SortByStart(acc.tomorrow_slots),
                     current_slot |-> acc.current_slot,
                     last_update |-> now]]

\* the body of OstromConsumptionCoordinator._async_update_data after the await
ConsumptionResult(raw_data, now, tz) ==
    LET acc == ConsumptionLoop(raw_data, 1, now, tz,
                               [yesterday |-> <<>>, today |-> <<>>, error |-> ""])
    IN  [error |-> acc.error,
         result |-> [yesterday |-> SortByStart(acc.yesterday),
                     today |-> SortByStart(acc.today),
                     last_update |-> now]]

\* the window OstromPriceCoordinator._async_update_data asks the client for
PriceRequest(now, tz) ==
    [start_utc |-> ToNaiveUtc(start_of_local_day(now), tz),
     end_utc |-> ToNaiveUtc(start_of_local_day(now) + 2 * Day, tz)]

\* the window OstromConsumptionCoordinator._async_update_data asks the client for
ConsumptionRequest(now, tz) ==
    [start_utc |-> ToNaiveUtc(start_of_local_day(now) - Day, tz),
     end_utc |-> ToNaiveUtc(start_of_local_day(now) + Day, tz)]

-----------------------------------------------------------------------------
(* The cost sensor (sensor.py)                                             *)

\* dict.get(key, [])
GetList(dict, key) == IF key \in DOMAIN dict THEN dict[key] ELSE <<>>

\* start.replace(minute=0, second=0, microsecond=0)
HourStart(t) == t - (t % Hour)

\* round(x, 2) of an amount in EUR, for the amount n / d cents: to the nearest cent,
\* a tie to the even cent
Round2(n, d) ==
    LET q == n \div d
        r == n % d
    IN  IF 2 * r < d THEN q
        ELSE IF 2 * r > d THEN q + 1
        ELSE IF q % 2 = 0 THEN q ELSE q + 1

RECURSIVE SumTotalPrice(_)
SumTotalPrice(price_slots) ==
    IF price_slots = <<>>
    THEN 0
    ELSE price_slots[Len(price_slots)].total_price
         + SumTotalPrice(SubSeq(price_slots, 1, Len(price_slots) - 1))

\* the price of a slot counts only for an entry that starts when the slot starts
EntryCost_exact_start(entry, price_slots) ==
    LET matches == {i \in 1..Len(price_slots) : price_slots[i].start = entry.start}
        last == CHOOSE i \in matches : \A j \in matches : j <= i
    IN  IF matches # {}
        THEN entry.kwh.v * price_slots[last].total_price * Len(price_slots)
        ELSE entry.kwh.v * SumTotalPrice(price_slots)

\* kwh * price of one consumption entry, times len(price_slots): the price of the
\* last slot of the entry's hour, or the average price of the list
EntryCost(entry, price_slots) ==
    LET hour_start == HourStart(entry.start)
        matches == {i \in 1..Len(price_slots) : HourStart(price_slots[i].start) = hour_start}
        last == CHOOSE i \in matches : \A j \in matches : j <= i
    IN  IF matches # {}
        THEN entry.kwh.v * price_slots[last].total_price * Len(price_slots)
        ELSE entry.kwh.v * SumTotalPrice(price_slots)

RECURSIVE TotalCost(_, _)
TotalCost(consumption_entries, price_slots) ==
    IF consumption_entries = <<>>
    THEN 0
    ELSE EntryCost(consumption_entries[Len(consumption_entries)], price_slots)
         + TotalCost(SubSeq(consumption_entries, 1, Len(consumption_entries) - 1),
                     price_slots)

\* OstromCostSensor.native_value, in cents: None, a number, or the TypeError of
\* "kwh * price" for a kwh that is None
native_value(is_today, price_data, consumption_data) ==
    LET consumption_entries ==
            GetList(consumption_data, IF is_today THEN "today" ELSE "yesterday")
        price_slots ==
            GetList(price_data, IF is_today THEN "today_slots" ELSE "yesterday_slots")
    IN  IF price_data = None \/ consumption_data = None
        THEN [kind |-> "None", v |-> 0]
        ELSE IF consumption_entries = <<>> \/ price_slots = <<>>
        THEN [kind |-> "None", v |-> 0]
        ELSE IF \E i \in 1..Len(consumption_entries) : consumption_entries[i].kwh.t = "null"
        THEN [kind |-> "TypeError", v |-> 0]
        ELSE [kind |-> "number",
              v |-> Round2(TotalCost(consumption_entries, price_slots), Len(price_slots))]

\* a cost sensor that is available as soon as one coordinator succeeded
available_either(price_success, consumption_success) ==
    price_success \/ consumption_success

\* OstromCostSensor.available
available(price_success, consumption_success) == price_success /\ consumption_success

\* the state _handle_coordinator_update writes: "unavailable" unless available
CostState(is_today, price_data, consumption_data, price_success, consumption_success) ==
    IF ~available(price_success, consumption_success)
    THEN [kind |-> "unavailable", v |-> 0]
    ELSE native_value(is_today, price_data, consumption_data)

-----------------------------------------------------------------------------
(* Refreshes with their data: one instant, every response the provider can *)
(* give, both coordinators and the cost sensors listening to them          *)

\* provider records per response
MaxRecords == 2

\* local midnight of the day of the refreshes: day 2
TodayStart == 2 * Day
DataNows == {TodayStart + At(10, 7, 30, 0)}
UtcOffsets == {Hour}

SpotPrice(date, gross) ==
    [date |-> date, grossKwhPrice |-> gross, grossKwhTaxAndLevies |-> Num(500)]

\* records of the spot price endpoint; in local time (UTC+1): yesterday 23:00,
\* today 10:00 twice, tomorrow 00:00, and records with a date or a price that is
\* null
PriceRecords ==
    {SpotPrice(IsoDate(TodayStart - 2 * Hour), Num(1500)),
     SpotPrice(IsoDate(TodayStart + 9 * Hour), Num(1500)),
     SpotPrice(IsoDate(TodayStart + 9 * Hour), Num(2000)),
     SpotPrice(IsoDate(TodayStart + 23 * Hour), Num(1000)),
     SpotPrice(BadDate("null"), Num(1500)),
     SpotPrice(IsoDate(TodayStart + 9 * Hour), Null)}

Consumption(date, kWh) == [date |-> date, kWh |-> kWh]

\* records of the consumption endpoint; in local time (UTC+1): yesterday 23:00,
\* today 10:00 twice, tomorrow 00:00, and records with a date that is absent or
\* a kWh that is null
ConsumptionRecords ==
    {Consumption(IsoDate(TodayStart - 2 * Hour), Num(5)),
     Consumption(IsoDate(TodayStart + 9 * Hour), Num(10)),
     Consumption(IsoDate(TodayStart + 9 * Hour), Num(3)),
     Consumption(IsoDate(TodayStart + 23 * Hour), Num(5)),
     Consumption(BadDate("missing"), Num(5)),
     Consumption(IsoDate(TodayStart + 9 * Hour), Null)}

Lists(records) == UNION {[1..n -> records] : n \in 0..MaxRecords}

\* 72 hourly records from local midnight of yesterday on
Hourly72(tz) ==
    [i \in 1..72 |->
        SpotPrice(IsoDate(TodayStart - Day - tz + (i - 1) * Hour), Num(1000 + i))]

HttpStatuses == {200, 401, 404, 429, 500}

PriceLists == Lists(PriceRecords)
ConsumptionLists == Lists(ConsumptionRecords)

\* the responses one client call can get: a coordinator that was refreshed before
\* gets the empty list or "rate limit exceeded"; a retried response comes only after
\* a 401, and a list only with a response that is read
FirstStatuses(c) == IF request[c] # None THEN {200, 429} ELSE HttpStatuses
RetryStatuses(first) == IF first = 401 THEN HttpStatuses ELSE {200}
ResponseLists(c, first, retry, lists) ==
    IF request[c] # None \/ _async_request(first, retry).kind # "json"
    THEN {<<>>}
    ELSE lists

\* how the refresh ends for what the client call returned or raised and what the
\* processing raised
Raised(client, processed) ==
    IF client.kind = "TypeError" THEN [kind |-> "Exception", msg |-> client.msg]
    ELSE IF client.kind # "ok" THEN [kind |-> client.kind, msg |-> client.msg]
    ELSE IF processed.error # "" THEN [kind |-> "Exception", msg |-> processed.error]
    ELSE NoError

\* DataUpdateCoordinator takes the result or the UpdateFailed of _async_update_data
\* and notifies the listeners, the cost sensors among them
Refreshed(c, req, first, retry, list, client, processed) ==
    LET exc == Raised(client, processed)
        exit == ExitPath(exc)
    IN  /\ request' = [request EXCEPT ![c] = req]
        /\ http' = [http EXCEPT ![c] = [first |-> first, retry |-> retry]]
        /\ body' = [body EXCEPT ![c] = list]
        /\ fetched' = [fetched EXCEPT ![c] = client]
        /\ raised' = [raised EXCEPT ![c] = exc]
        /\ outcome' = [outcome EXCEPT ![c] =
               [kind |-> exit.kind, prefix |-> exit.prefix, msg |-> exit.msg]]
        /\ IF exit.schedules
           THEN _schedule_next_update(c)
           ELSE UNCHANGED <<handles, update_timer>>
        /\ data' = [data EXCEPT ![c] =
               IF exit.kind = "result" THEN processed.result ELSE data[c]]
        /\ last_update_success' = [last_update_success EXCEPT ![c] = exit.kind = "result"]
        /\ cost' = [is_today \in BOOLEAN |->
               CostState(is_today, data'["price"], data'["consumption"],
                         last_update_success'["price"],
                         last_update_success'["consumption"])]
        /\ UNCHANGED <<clock, lat, poll_interval_minutes, update_offset_seconds, pending,
                       pc, setup, shutdown_requested, unloaded, enqueue_failures,
                       utc_offset, contract_id, tickVars, calcVars, apiVars,
                       sharedVars>>

\* one refresh of the price coordinator: OstromPriceCoordinator._async_update_data
\* with the client call it awaits, for the responses the provider may give
PriceRefresh(lists) ==
    \E first \in FirstStatuses("price") : \E retry \in RetryStatuses(first) :
        \E list \in ResponseLists("price", first, retry, lists) :
            LET client == async_get_spot_prices(first, retry, list)
            IN  Refreshed("price", PriceRequest(clock, utc_offset), first, retry, list,
                          client, PriceResult(client.data, clock, utc_offset))

OstromPriceCoordinator_async_update_data ==
    PriceRefresh(PriceLists \cup {Hourly72(utc_offset)})

\* one refresh of the consumption coordinator:
\* OstromConsumptionCoordinator._async_update_data with the client call it awaits
OstromConsumptionCoordinator_async_update_data ==
    \E first \in FirstStatuses("consumption") : \E retry \in RetryStatuses(first) :
        \E list \in ResponseLists("consumption", first, retry, ConsumptionLists) :
            LET client == async_get_energy_consumption(first, retry, list)
            IN  Refreshed("consumption", ConsumptionRequest(clock, utc_offset), first,
                          retry, list, client,
                          ConsumptionResult(client.data, clock, utc_offset))

\* after the constructors of async_setup_entry, at one instant of day 2
InitData ==
    /\ clock \in DataNows
    /\ lat = 0
    /\ poll_interval_minutes = [c \in Coordinators |-> IF c = "price" THEN 15 ELSE 60]
    /\ update_offset_seconds = [c \in Coordinators |-> 15]
    /\ handles = [c \in Coordinators |-> <<>>]
    /\ update_timer = [c \in Coordinators |-> "None"]
    /\ pending = [c \in Coordinators |-> FALSE]
    /\ pc = [c \in Coordinators |-> "idle"]
    /\ raised = [c \in Coordinators |-> NoError]
    /\ outcome = [c \in Coordinators |-> NoOutcome]
    /\ setup = "data"
    /\ contract_id = "contract"
    /\ shutdown_requested = [c \in Coordinators |-> FALSE]
    /\ unloaded = FALSE
    /\ enqueue_failures = 0
    /\ TickIdle
    /\ utc_offset \in UtcOffsets
    /\ request = [c \in Coordinators |-> None]
    /\ http = [c \in Coordinators |-> None]
    /\ body = [c \in Coordinators |-> <<>>]
    /\ fetched = [c \in Coordinators |-> None]
    /\ data = [c \in Coordinators |-> None]
    /\ last_update_success = [c \in Coordinators |-> TRUE]
    /\ cost = [is_today \in BOOLEAN |-> [kind |-> "None", v |-> 0]]
    /\ CalcIdle
    /\ ApiIdle
    /\ SharedIdle

NextData ==
    \/ OstromPriceCoordinator_async_update_data
    \/ OstromConsumptionCoordinator_async_update_data

SpecData == InitData /\ [][NextData]_vars

-----------------------------------------------------------------------------
(* Properties of the refreshed data (under SpecData)                       *)

\* the last refresh of the coordinator returned a result
Succeeded(c) == outcome[c].kind = "result"

\* the response of the last client call was read as JSON
ResponseRead(c) ==
    http[c] # None /\ _async_request(http[c].first, http[c].retry).kind = "json"

\* the buckets of a result and the calendar day of each, relative to today
BucketKeys == {"yesterday_slots", "today_slots", "tomorrow_slots", "yesterday", "today"}
Buckets(c) == DOMAIN data[c] \cap BucketKeys
BucketDay(key) ==
    IF key \in {"yesterday_slots", "yesterday"} THEN -1
    ELSE IF key \in {"today_slots", "today"} THEN 0
    ELSE 1

\* the records of the last response whose date is a timestamp, and their local start
Parsed(c) == {i \in 1..Len(body[c]) : body[c][i].date.kind = "iso"}
LocalStart(c, i) == body[c][i].date.utc + utc_offset

\* C11: every price refresh asks the client for the window
\* [yesterday_start, yesterday_start + 3 days), yesterday_start being the local
\* midnight of now minus one day, both bounds as naive UTC
C11_PriceWindowFromYesterday ==
    request["price"] # None =>
        LET yesterday_start == (clock - (clock % Day)) - Day
        IN  request["price"] = [start_utc |-> yesterday_start - utc_offset,
                                end_utc |-> (yesterday_start + 3 * Day) - utc_offset]

\* C12: a price refresh of 72 hourly records covering yesterday, today and tomorrow
\* returns yesterday_slots, today_slots and tomorrow_slots with exactly the 24
\* records of each day; a refresh of an empty response returns the three buckets
\* empty
C12_ThreeBucketsOf24 ==
    Succeeded("price") =>
        /\ body["price"] = Hourly72(utc_offset) =>
              \A key \in {"yesterday_slots", "today_slots", "tomorrow_slots"} :
                  /\ key \in DOMAIN data["price"]
                  /\ Len(data["price"][key]) = 24
                  /\ \A i \in 1..24 :
                        data["price"][key][i].start =
                            (clock - (clock % Day)) + BucketDay(key) * Day + (i - 1) * Hour
        /\ body["price"] = <<>> =>
              \A key \in {"yesterday_slots", "today_slots", "tomorrow_slots"} :
                  key \in DOMAIN data["price"] /\ data["price"][key] = <<>>

C14_CurrentSlotCoversNow ==
    Succeeded("price") =>
        LET now == data["price"].last_update
            covering == {i \in Parsed("price") :
                            /\ LocalStart("price", i) <= now
                            /\ now < LocalStart("price", i) + Hour}
            last == CHOOSE i \in covering : \A j \in covering : j <= i
            current_slot == data["price"].current_slot
        IN  IF covering = {}
            THEN current_slot = None
            ELSE /\ current_slot # None
                 /\ current_slot.start <= now /\ now < current_slot.end
                 /\ current_slot.start = LocalStart("price", last)
                 /\ current_slot.total_price =
                        body["price"][last].grossKwhPrice.v
                        + body["price"][last].grossKwhTaxAndLevies.v

\* two records cover now; the price of the second one is recorded
C14_Witness ==
    /\ Succeeded("price")
    /\ Len(body["price"]) = 2
    /\ body["price"][1].grossKwhPrice = Num(1500)
    /\ body["price"][2].grossKwhPrice = Num(2000)
    /\ LocalStart("price", 1) = TodayStart + 10 * Hour
    /\ LocalStart("price", 2) = TodayStart + 10 * Hour
    /\ data["price"].current_slot.total_price = 2500

\* C15: after a successful refresh each bucket is sorted ascending by start and has
\* no two elements with the same hour-normalized start
C15_SortedNoDuplicates ==
    \A c \in Coordinators :
        Succeeded(c) =>
            \A key \in Buckets(c) :
                \A i \in 1..Len(data[c][key]), j \in 1..Len(data[c][key]) :
                    i < j => /\ data[c][key][i].start <= data[c][key][j].start
                             /\ HourStart(data[c][key][i].start)
                                    # HourStart(data[c][key][j].start)

\* a record with a timestamp and without a null price field
WellFormed(c, i) ==
    /\ i \in Parsed(c)
    /\ c = "price" => /\ body[c][i].grossKwhPrice.t # "null"
                      /\ body[c][i].grossKwhTaxAndLevies.t # "null"

\* C16: whatever records with a missing, null, non-string or unparseable date or
\* with null price fields a response mixes with well-formed ones, the refresh
\* succeeds and every well-formed record of a bucket's day is in that bucket
C16_BadRecordNeverAborts ==
    \A c \in Coordinators :
        ResponseRead(c) =>
            /\ Succeeded(c)
            /\ \A i \in 1..Len(body[c]) : \A key \in Buckets(c) :
                  (/\ WellFormed(c, i)
                   /\ DateOf(LocalStart(c, i)) = DateOf(clock) + BucketDay(key))
                      => \E j \in 1..Len(data[c][key]) :
                             data[c][key][j].start = LocalStart(c, i)

\* C17: a consumption refresh whose client call returns the empty list does not
\* raise, its result has yesterday = [], today = [] and a last_update, and it leaves
\* one armed timer like every successful refresh
C17_EmptyConsumptionIsSuccess ==
    (fetched["consumption"] # None
     /\ fetched["consumption"].kind = "ok" /\ fetched["consumption"].data = <<>>)
        => /\ Succeeded("consumption")
           /\ last_update_success["consumption"]
           /\ data["consumption"].yesterday = <<>>
           /\ data["consumption"].today = <<>>
           /\ data["consumption"].last_update = clock
           /\ Armed("consumption") = 1
           /\ update_timer["consumption"] = "armed"

\* the endpoint answered 200 with an empty list
C17_Witness ==
    /\ http["consumption"] = [first |-> 200, retry |-> 200]
    /\ fetched["consumption"] = ClientResult("ok", "", 0, <<>>)
    /\ data["consumption"] # None
    /\ data["consumption"].yesterday = <<>> /\ data["consumption"].today = <<>>
    /\ Armed("consumption") = 1

\* C18: async_get_energy_consumption returns the empty list whenever the endpoint
\* answers 404, on the first attempt and on the retry after a 401, and re-raises
\* every other API error
C18_NotFoundIsEmptyList ==
    http["consumption"] # None =>
        LET first == http["consumption"].first
            retry == http["consumption"].retry
        IN  IF first = 404 \/ (first = 401 /\ retry = 404)
            THEN fetched["consumption"] = ClientResult("ok", "", 0, <<>>)
            ELSE _async_request(first, retry).kind = "OstromApiError"
                     => fetched["consumption"] = _async_request(first, retry)

\* C19: the cost is unavailable whenever a coordinator has no data, a coordinator's
\* last refresh failed, or the consumption list or the price-slot list of the
\* selected day is empty; in every other state it is a number
C19_CostUnavailableOrNumber ==
    \A is_today \in BOOLEAN :
        LET consumption_entries ==
                GetList(data["consumption"], IF is_today THEN "today" ELSE "yesterday")
            price_slots ==
                GetList(data["price"], IF is_today THEN "today_slots" ELSE "yesterday_slots")
        IN  IF \/ data["price"] = None \/ data["consumption"] = None
               \/ ~last_update_success["price"] \/ ~last_update_success["consumption"]
               \/ consumption_entries = <<>> \/ price_slots = <<>>
            THEN cost[is_today].kind \in {"unavailable", "None"}
            ELSE cost[is_today].kind = "number"

\* the records of yesterday's date in the last response
OfYesterday(c) == {i \in Parsed(c) : DateOf(LocalStart(c, i)) = DateOf(clock) - 1}

\* yesterday's price of the hour of a consumption record: of the last record of
\* that hour
YesterdayPrice(k) ==
    LET same_hour == {i \in OfYesterday("price") :
                         HourStart(LocalStart("price", i))
                             = HourStart(LocalStart("consumption", k))}
        last == CHOOSE i \in same_hour : \A j \in same_hour : j <= i
    IN  body["price"][last].grossKwhPrice.v + body["price"][last].grossKwhTaxAndLevies.v

\* the sum of kWh times yesterday's price over the records 1..n of yesterday
RECURSIVE YesterdayCost(_)
YesterdayCost(n) ==
    IF n = 0
    THEN 0
    ELSE (IF n \in OfYesterday("consumption")
          THEN body["consumption"][n].kWh.v * YesterdayPrice(n)
          ELSE 0)
         + YesterdayCost(n - 1)

\* C20: after successful refreshes of both coordinators in which the provider
\* supplied yesterday's consumption and yesterday's price of each of its hours, the
\* yesterday cost is available and is the sum over yesterday's consumption entries
\* of kWh times yesterday's price of the same hour
C20_YesterdayCostFromYesterdayPrices ==
    (/\ Succeeded("price") /\ Succeeded("consumption")
     /\ OfYesterday("consumption") # {}
     /\ \A k \in OfYesterday("consumption") :
           /\ body["consumption"][k].kWh.t = "num"
           /\ \E i \in OfYesterday("price") :
                 HourStart(LocalStart("price", i)) = HourStart(LocalStart("consumption", k)))
        => /\ cost[FALSE].kind = "number"
           /\ cost[FALSE].v = YesterdayCost(Len(body["consumption"]))

-----------------------------------------------------------------------------
(* The price statistics of the sensors (sensor.py), the cheapest blocks    *)
(* (utils.py, binary_sensor.py) and the block sensors (binary_sensor.py).  *)
(*                                                                         *)
(* A slot is a dict with the keys "start" and "total_price", each a JSON   *)
(* value: present, None, or absent.  total_price is counted in cents; a    *)
(* price the sensors return is counted in units of 0.00001 EUR.  Sums and  *)
(* quotients are exact.                                                    *)

Slot(start, total_price) == [start |-> start, total_price |-> total_price]

\* what a function returns ("None", "number", "datetime") or raises ("TypeError")
Res(kind, v) == [kind |-> kind, v |-> v]
NoneResult == Res("None", 0)
TypeError == Res("TypeError", 0)

\* an absent total_price is a price of its own, not 0
Prices_missing_not_zero(slots) ==
    [i \in 1..Len(slots) |->
        IF slots[i].total_price.t = "missing" THEN Num(99) ELSE slots[i].total_price]

\* [s.get("total_price", 0) for s in slots]
Prices(slots) == [i \in 1..Len(slots) |-> GetOrZero(slots[i].total_price)]

\* a None among the prices: min, max, sum, sorted or round raise TypeError on it
HasNone(prices) == \E i \in 1..Len(prices) : prices[i].t = "null"

\* round(x, 5) of a price of n / d cents, in units of 0.00001 EUR
Round5(n, d) == Round2(1000 * n, d)

\* sum(prices)
RECURSIVE SumOf(_)
SumOf(prices) ==
    IF prices = <<>>
    THEN 0
    ELSE prices[Len(prices)].v + SumOf(SubSeq(prices, 1, Len(prices) - 1))

\* min(prices) and max(prices)
MinOf(prices) ==
    CHOOSE v \in {prices[i].v : i \in 1..Len(prices)} :
        \A i \in 1..Len(prices) : v <= prices[i].v
MaxOf(prices) ==
    CHOOSE v \in {prices[i].v : i \in 1..Len(prices)} :
        \A i \in 1..Len(prices) : v >= prices[i].v

\* the prices in the order of the list
sorted_as_listed(prices) == [p \in 1..Len(prices) |-> prices[p].v]

\* sorted(prices): ascending
sorted(prices) ==
    LET rank(i) == Cardinality({j \in 1..Len(prices) :
                                   \/ prices[j].v < prices[i].v
                                   \/ prices[j].v = prices[i].v /\ j <= i})
    IN  [p \in 1..Len(prices) |-> prices[CHOOSE i \in 1..Len(prices) : rank(i) = p].v]

_get_min_price(slots) ==
    IF slots = <<>> THEN NoneResult
    ELSE IF HasNone(Prices(slots)) THEN TypeError
    ELSE Res("number", Round5(MinOf(Prices(slots)), 1))

_get_max_price(slots) ==
    IF slots = <<>> THEN NoneResult
    ELSE IF HasNone(Prices(slots)) THEN TypeError
    ELSE Res("number", Round5(MaxOf(Prices(slots)), 1))

_get_avg_price(slots) ==
    IF slots = <<>> THEN NoneResult
    ELSE IF HasNone(Prices(slots)) THEN TypeError
    ELSE Res("number", Round5(SumOf(Prices(slots)), Len(slots)))

\* "if length % 2 == 1: sorted_prices[length // 2], else: the average of
\* sorted_prices[length // 2 - 1] and sorted_prices[length // 2]", with the
\* indices of Python counted from 0
_get_median_price(slots) ==
    LET sorted_prices == sorted(Prices(slots))
        length == Len(sorted_prices)
    IN  IF slots = <<>> THEN NoneResult
        ELSE IF HasNone(Prices(slots)) THEN TypeError
        ELSE IF length % 2 = 1
        THEN Res("number", Round5(sorted_prices[length \div 2 + 1], 1))
        ELSE Res("number", Round5(sorted_prices[length \div 2]
                                  + sorted_prices[length \div 2 + 1], 2))

\* s.get("total_price", float("inf")) and s.get("total_price", float("-inf")): an
\* extended number, inf being 1 for float("inf") and -1 for float("-inf")
KeyOr(slot, inf) ==
    IF slot.total_price.t = "missing"
    THEN [inf |-> inf, v |-> 0]
    ELSE [inf |-> 0, v |-> slot.total_price.v]
Less(a, b) == a.inf < b.inf \/ (a.inf = b.inf /\ a.v < b.v)

\* the key a beats the key b: it is less for min (inf = 1), greater for max (inf = -1)
Beats(a, b, inf) == IF inf = 1 THEN Less(a, b) ELSE Less(b, a)

\* slot.get("start")
GetStart(slot) ==
    IF slot.start.t = "num" THEN Res("datetime", slot.start.v) ELSE NoneResult

\* the last of the slots with the extreme key
Extreme_last(slots, inf) ==
    CHOOSE i \in 1..Len(slots) :
        /\ \A j \in 1..Len(slots) : ~Beats(KeyOr(slots[j], inf), KeyOr(slots[i], inf), inf)
        /\ \A j \in (i + 1)..Len(slots) :
               Beats(KeyOr(slots[i], inf), KeyOr(slots[j], inf), inf)

\* min(slots, key=...) and max(slots, key=...): the index of the first slot whose
\* key no other key beats
Extreme(slots, inf) ==
    CHOOSE i \in 1..Len(slots) :
        /\ \A j \in 1..Len(slots) : ~Beats(KeyOr(slots[j], inf), KeyOr(slots[i], inf), inf)
        /\ \A j \in 1..(i - 1) : Beats(KeyOr(slots[i], inf), KeyOr(slots[j], inf), inf)

\* a key that is None is compared as soon as the list has two slots
KeyRaises(slots) ==
    Len(slots) >= 2 /\ \E i \in 1..Len(slots) : slots[i].total_price.t = "null"

_get_cheapest_hour(slots) ==
    IF slots = <<>> THEN NoneResult
    ELSE IF KeyRaises(slots) THEN TypeError
    ELSE GetStart(slots[Extreme(slots, 1)])

_get_most_expensive_hour(slots) ==
    IF slots = <<>> THEN NoneResult
    ELSE IF KeyRaises(slots) THEN TypeError
    ELSE GetStart(slots[Extreme(slots, -1)])

\* sum(s.get("total_price", 0) for s in block) of block = slots[i : i + n], with i
\* counted from 1; the averages of two blocks compare as their sums do
BlockSum(slots, i, n) == SumOf(SubSeq(Prices(slots), i, i + n - 1))

\* a block that is as cheap as the best one replaces it
Cheaper_or_equal(avg_price, min_avg) == min_avg.inf \/ avg_price <= min_avg.sum

\* "avg_price < min_avg", min_avg being float("inf") at first
Cheaper(avg_price, min_avg) == min_avg.inf \/ avg_price < min_avg.sum

\* the loop "for i in range(len(slots) - n + 1)" of get_cheapest_3h_block (n = 3)
\* and get_cheapest_4h_block (n = 4)
RECURSIVE BlockLoop(_, _, _, _, _)
BlockLoop(slots, n, i, min_avg, best_start) ==
    IF i > Len(slots) - n + 1
    THEN best_start
    ELSE IF Cheaper(BlockSum(slots, i, n), min_avg)
    THEN BlockLoop(slots, n, i + 1, [inf |-> FALSE, sum |-> BlockSum(slots, i, n)],
                   GetStart(slots[i]))
    ELSE BlockLoop(slots, n, i + 1, min_avg, best_start)

cheapest_block(slots, n) ==
    IF Len(slots) < n THEN NoneResult
    ELSE IF HasNone(Prices(slots)) THEN TypeError
    ELSE BlockLoop(slots, n, 1, [inf |-> TRUE, sum |-> 0], NoneResult)

\* utils.py
get_cheapest_3h_block(slots) == cheapest_block(slots, 3)
get_cheapest_4h_block(slots) == cheapest_block(slots, 4)

\* the copies of binary_sensor.py
_get_cheapest_3h_block(slots) == cheapest_block(slots, 3)
_get_cheapest_4h_block(slots) == cheapest_block(slots, 4)

\* the tuple (is_active, block_start, block_end) of the block checks, and the tuple
\* (is_active, attrs) of the sensors, attrs being None or the dict of
\* block_start.isoformat() and block_end.isoformat()
Tuple(is_active, block_start, block_end) ==
    [kind |-> "tuple", v |-> 0, is_active |-> is_active,
     block_start |-> block_start, block_end |-> block_end]

\* the block is active up to and including its end
InBlock_end_included(block_start, now, block_end) ==
    block_start <= now /\ now <= block_end

\* "block_start <= now < block_end"
InBlock(block_start, now, block_end) == block_start <= now /\ now < block_end

\* _is_cheapest_3h_block_active (n = 3) and _is_cheapest_4h_block_active (n = 4)
is_block_active(block_start, now, n) ==
    IF block_start.kind = "TypeError" THEN TypeError
    ELSE IF block_start.kind # "datetime" THEN Tuple(FALSE, NoneResult, NoneResult)
    ELSE Tuple(InBlock(block_start.v, now, block_start.v + n * Hour),
               block_start, Res("datetime", block_start.v + n * Hour))

_is_cheapest_3h_block_active(slots, now) ==
    is_block_active(_get_cheapest_3h_block(slots), now, 3)

_is_cheapest_4h_block_active(slots, now) ==
    is_block_active(_get_cheapest_4h_block(slots), now, 4)

\* _is_tomorrow_cheapest_3h_block_active, which reads dt_util.now() and later, for
\* dt_util.start_of_local_day(), the clock again
_is_tomorrow_cheapest_3h_block_active(price_data, now, later) ==
    LET tomorrow_slots == GetList(price_data, "tomorrow_slots")
        block_start == _get_cheapest_3h_block(tomorrow_slots)
        block_end == block_start.v + 3 * Hour
        today_start == start_of_local_day(later)
        tomorrow_start == today_start + Day
    IN  IF tomorrow_slots = <<>> THEN Tuple(FALSE, NoneResult, NoneResult)
        ELSE IF block_start.kind = "TypeError" THEN TypeError
        ELSE IF block_start.kind # "datetime" THEN Tuple(FALSE, NoneResult, NoneResult)
        ELSE Tuple(now >= tomorrow_start /\ InBlock(block_start.v, now, block_end),
                   block_start, Res("datetime", block_end))

-----------------------------------------------------------------------------
(* The functions of the sensors applied to slot lists: every list of up to *)
(* MaxLen slots with and without start and total_price, every hourly list  *)
(* of up to MaxBlock slots, and the clock before, in and after the blocks  *)

\* slots per list of arbitrary slots
MaxLen == 3
\* slots per hourly list
MaxBlock == 5

\* local midnight of the day of the slots: day 3, the day after the refreshes
SlotDay == TodayStart + Day

\* slots at 10:00, 11:00 and 12:00, the last two with the same price; a cheaper
\* slot without start; a slot whose total_price is None; a slot without total_price
SomeSlots ==
    {Slot(Num(SlotDay + 10 * Hour), Num(25)),
     Slot(Num(SlotDay + 11 * Hour), Num(15)),
     Slot(Num(SlotDay + 12 * Hour), Num(15)),
     Slot(Missing, Num(10)),
     Slot(Num(SlotDay + 13 * Hour), Null),
     Slot(Num(SlotDay + 14 * Hour), Missing)}

\* the slots of the hours from 10:00 on with the given prices
Hourly(prices) ==
    [i \in 1..Len(prices) |-> Slot(Num(SlotDay + (9 + i) * Hour), Num(prices[i]))]

BlockPrices == {10, 20}

\* the slots of a day whose response has no record for 12:00
MissingHour ==
    <<Slot(Num(SlotDay + 10 * Hour), Num(10)), Slot(Num(SlotDay + 11 * Hour), Num(10)),
      Slot(Num(SlotDay + 13 * Hour), Num(10)), Slot(Num(SlotDay + 14 * Hour), Num(20))>>

SlotLists ==
    UNION {[1..n -> SomeSlots] : n \in 0..MaxLen}
    \cup UNION {{Hourly(prices) : prices \in [1..n -> BlockPrices]} : n \in 0..MaxBlock}
    \cup {Hourly(<<30, 20, 25, 10, 15, 20>>), MissingHour}

\* the clock: on the day before the slots, at their midnight and the instant before
\* it, and at the starts and ends of their blocks
SlotNows ==
    {TodayStart + At(10, 7, 30, 0), SlotDay - 1, SlotDay,
     SlotDay + At(10, 0, 0, 0), SlotDay + At(12, 59, 59, Sub - 1),
     SlotDay + At(13, 0, 0, 0), SlotDay + At(14, 0, 0, 0), SlotDay + At(16, 0, 0, 0)}

\* a consumption entry as the consumption coordinator stores it
ConsumptionSlot(start, kwh) == [start |-> start, end |-> start + Hour, kwh |-> Num(kwh)]

\* consumption at 10:00, at 10:30 and at 15:00
SomeEntries ==
    {ConsumptionSlot(SlotDay + At(10, 0, 0, 0), 10),
     ConsumptionSlot(SlotDay + At(10, 30, 0, 0), 3),
     ConsumptionSlot(SlotDay + At(15, 0, 0, 0), 5)}

\* the price slot as the price coordinator stores it
PriceSlot(slot) ==
    [start |-> slot.start.v, end |-> slot.start.v + Hour, total_price |-> slot.total_price.v]

\* the slots are slots the price coordinator can store
Stored(slots) ==
    \A i \in 1..Len(slots) : slots[i].start.t = "num" /\ slots[i].total_price.t = "num"

\* coordinator.data of the price and of the consumption coordinator on the day of
\* the slots
PriceData(slots, now) ==
    [today_slots |-> [i \in 1..Len(slots) |-> PriceSlot(slots[i])],
     tomorrow_slots |-> <<>>, current_slot |-> None, last_update |-> now]
ConsumptionData(entries, now) ==
    [yesterday |-> <<>>, today |-> entries, last_update |-> now]

\* the clock of the applications that do not read it
NoClock == SlotDay + At(16, 0, 0, 0)

\* the function, applied to those of the arguments "now" and "entries" it takes
\* besides the slots, returns or raises
Call(fn, args, result) ==
    /\ k_fn = "input"
    /\ "now" \notin args => k_now = NoClock
    /\ "entries" \notin args => k_entries = <<>>
    /\ k_fn' = fn
    /\ k_result' = result
    /\ UNCHANGED <<k_slots, k_entries, k_now, coordVars, tickVars, dataVars, apiVars, sharedVars>>

call__get_min_price == Call("_get_min_price", {}, _get_min_price(k_slots))
call__get_max_price == Call("_get_max_price", {}, _get_max_price(k_slots))
call__get_avg_price == Call("_get_avg_price", {}, _get_avg_price(k_slots))
call__get_median_price == Call("_get_median_price", {}, _get_median_price(k_slots))
call__get_cheapest_hour == Call("_get_cheapest_hour", {}, _get_cheapest_hour(k_slots))
call__get_most_expensive_hour ==
    Call("_get_most_expensive_hour", {}, _get_most_expensive_hour(k_slots))
call_get_cheapest_3h_block ==
    Call("get_cheapest_3h_block", {}, get_cheapest_3h_block(k_slots))
call_get_cheapest_4h_block ==
    Call("get_cheapest_4h_block", {}, get_cheapest_4h_block(k_slots))
call__is_cheapest_3h_block_active ==
    Call("_is_cheapest_3h_block_active", {"now"},
         _is_cheapest_3h_block_active(k_slots, k_now))
call__is_cheapest_4h_block_active ==
    Call("_is_cheapest_4h_block_active", {"now"},
         _is_cheapest_4h_block_active(k_slots, k_now))

\* the sensor of tomorrow's block, with the slots as tomorrow_slots of the stored
\* result; the clock may go on by one unit between its two reads
call__is_tomorrow_cheapest_3h_block_active ==
    \E later \in {k_now, k_now + 1} :
        Call("_is_tomorrow_cheapest_3h_block_active", {"now"},
             _is_tomorrow_cheapest_3h_block_active([tomorrow_slots |-> k_slots],
                                                   k_now, later))

\* the cost sensor of today, with the slots as today_slots
call_native_value ==
    /\ Stored(k_slots)
    /\ Call("native_value", {"entries"},
            native_value(TRUE, PriceData(k_slots, k_now),
                         ConsumptionData(k_entries, k_now)))

\* the arguments of one application
InitCalc ==
    /\ CoordIdle
    /\ TickIdle
    /\ DataIdle
    /\ ApiIdle
    /\ SharedIdle
    /\ k_fn = "input"
    /\ k_slots \in SlotLists
    /\ \/ k_now \in SlotNows /\ k_entries = <<>>
       \/ k_now = NoClock /\ k_entries \in Lists(SomeEntries)
    /\ k_result = NoneResult

NextCalc ==
    \/ call__get_min_price
    \/ call__get_max_price
    \/ call__get_avg_price
    \/ call__get_median_price
    \/ call__get_cheapest_hour
    \/ call__get_most_expensive_hour
    \/ call_get_cheapest_3h_block
    \/ call_get_cheapest_4h_block
    \/ call__is_cheapest_3h_block_active
    \/ call__is_cheapest_4h_block_active
    \/ call__is_tomorrow_cheapest_3h_block_active
    \/ call_native_value

SpecCalc == InitCalc /\ [][NextCalc]_vars

-----------------------------------------------------------------------------
(* Properties of the functions of the sensors (under SpecCalc)             *)

\* the total_price of slot i of the list, an absent one counting as 0
PriceAt(i) == IF k_slots[i].total_price.t = "missing" THEN 0 ELSE k_slots[i].total_price.v

\* every slot has a total_price that is a number, or none (no None)
NoNonePrice == \A i \in 1..Len(k_slots) : k_slots[i].total_price.t # "null"
\* every slot has a total_price that is a number
AllPriced == \A i \in 1..Len(k_slots) : k_slots[i].total_price.t = "num"

RECURSIVE PriceSum(_)
PriceSum(n) == IF n = 0 THEN 0 ELSE PriceAt(n) + PriceSum(n - 1)

\* the slots of the hour of consumption entry k
SameHour(k) ==
    {i \in 1..Len(k_slots) :
        k_slots[i].start.v \div Hour = k_entries[k].start \div Hour}

\* Len(k_slots) times kwh * p(entry) of the first n consumption entries
RECURSIVE KwhTimesPrice(_)
KwhTimesPrice(n) ==
    IF n = 0
    THEN 0
    ELSE KwhTimesPrice(n - 1)
         + k_entries[n].kwh.v
           * (IF SameHour(n) # {}
              THEN Len(k_slots) * PriceAt(CHOOSE i \in SameHour(n) : TRUE)
              ELSE PriceSum(Len(k_slots)))

\* x is n / d rounded to a whole number
Rounded(x, n, d) == 2 * (x * d - n) <= d /\ 2 * (n - x * d) <= d

\* C21: for non-empty lists of consumption entries and price slots of the day, the
\* cost is the sum over all consumption entries of kwh * p(entry), rounded to the
\* cent, where p(entry) is the total_price of the slot of the entry's hour (an entry
\* at 10:30 uses the price of 10:00) and, without such a slot, the mean total_price
\* of the list
C21_CostIsSumOfKwhTimesPrice ==
    (k_fn = "native_value" /\ k_entries # <<>> /\ k_slots # <<>>)
        => /\ k_result.kind = "number"
           /\ Rounded(k_result.v, KwhTimesPrice(Len(k_entries)), Len(k_slots))

\* the cost of 3 kWh at 10:30 and 5 kWh at 15:00 with slots at 10:00, 11:00 and
\* 12:00: 3 * 25 + 5 * 55 / 3 cents
C21_Witness ==
    /\ k_fn = "native_value"
    /\ k_entries = <<ConsumptionSlot(SlotDay + At(10, 30, 0, 0), 3),
                     ConsumptionSlot(SlotDay + At(15, 0, 0, 0), 5)>>
    /\ k_slots = <<Slot(Num(SlotDay + 10 * Hour), Num(25)),
                   Slot(Num(SlotDay + 11 * Hour), Num(15)),
                   Slot(Num(SlotDay + 12 * Hour), Num(15))>>
    /\ k_result = Res("number", 167)

\* C22: min_price, max_price and avg_price return None for an empty list and
\* otherwise the minimum, the maximum and the mean (rounded to 5 decimals) of the
\* total_price values, a slot without total_price counting as 0
C22_MinMaxAvg ==
    (k_fn \in {"_get_min_price", "_get_max_price", "_get_avg_price"} /\ NoNonePrice)
        => IF k_slots = <<>>
           THEN k_result = NoneResult
           ELSE /\ k_result.kind = "number"
                /\ k_fn = "_get_min_price"
                       => /\ \E i \in 1..Len(k_slots) : k_result.v = 1000 * PriceAt(i)
                          /\ \A i \in 1..Len(k_slots) : k_result.v <= 1000 * PriceAt(i)
                /\ k_fn = "_get_max_price"
                       => /\ \E i \in 1..Len(k_slots) : k_result.v = 1000 * PriceAt(i)
                          /\ \A i \in 1..Len(k_slots) : k_result.v >= 1000 * PriceAt(i)
                /\ k_fn = "_get_avg_price"
                       => Rounded(k_result.v, 1000 * PriceSum(Len(k_slots)), Len(k_slots))

\* the minimum of a price of 0.25 and a slot without total_price is 0
C22_Witness ==
    /\ k_fn = "_get_min_price"
    /\ k_slots = <<Slot(Num(SlotDay + 10 * Hour), Num(25)),
                   Slot(Num(SlotDay + 14 * Hour), Missing)>>
    /\ k_result = Res("number", 0)

\* C23: min_price treats a total_price that is None as the price 0 and raises no
\* error: for the prices 0.25, None, 0.15 the result is 0.0
C23_MinPriceNoneIsZero ==
    (k_fn = "_get_min_price"
     /\ \E i \in 1..Len(k_slots) : k_slots[i].total_price.t = "null")
        => /\ k_result.kind = "number"
           /\ \A i \in 1..Len(k_slots) :
                  k_result.v <= (IF k_slots[i].total_price.t = "null"
                                 THEN 0 ELSE 1000 * PriceAt(i))
           /\ k_slots = <<Slot(Num(SlotDay + 10 * Hour), Num(25)),
                          Slot(Num(SlotDay + 13 * Hour), Null),
                          Slot(Num(SlotDay + 11 * Hour), Num(15))>>
                  => k_result = Res("number", 0)

\* the k-th smallest total_price of the list
Kth(k) ==
    CHOOSE x \in {PriceAt(i) : i \in 1..Len(k_slots)} :
        /\ Cardinality({i \in 1..Len(k_slots) : PriceAt(i) < x}) < k
        /\ Cardinality({i \in 1..Len(k_slots) : PriceAt(i) <= x}) >= k

\* every order of the elements of a list
RECURSIVE Shuffles(_)
Shuffles(list) ==
    IF list = <<>>
    THEN {<<>>}
    ELSE UNION {{<<list[i]>> \o rest : rest \in Shuffles(Remove(list, i))} :
                   i \in 1..Len(list)}

\* C24: median_price returns None for an empty list, the middle element of the
\* sorted total_price values for an odd count and the mean of the two middle
\* elements for an even count, and the same for every permutation of the list
C24_MedianOfAnyOrder ==
    (k_fn = "_get_median_price" /\ NoNonePrice)
        => /\ IF k_slots = <<>>
              THEN k_result = NoneResult
              ELSE /\ k_result.kind = "number"
                   /\ IF Len(k_slots) % 2 = 1
                      THEN k_result.v = 1000 * Kth((Len(k_slots) + 1) \div 2)
                      ELSE Rounded(k_result.v,
                                   1000 * (Kth(Len(k_slots) \div 2)
                                           + Kth(Len(k_slots) \div 2 + 1)), 2)
           /\ \A shuffled \in Shuffles(k_slots) :
                  _get_median_price(shuffled) = k_result

\* the median of 0.25 and 0.15, in this order, is 0.20
C24_Witness ==
    /\ k_fn = "_get_median_price"
    /\ k_slots = <<Slot(Num(SlotDay + 10 * Hour), Num(25)),
                   Slot(Num(SlotDay + 11 * Hour), Num(15))>>
    /\ k_result = Res("number", 20000)

C26_CheapestAmongSlotsWithStart ==
    (k_fn = "_get_cheapest_hour" /\ AllPriced
     /\ \E i \in 1..Len(k_slots) : k_slots[i].start.t = "num")
        => \E i \in 1..Len(k_slots) :
               /\ k_slots[i].start.t = "num"
               /\ k_result = Res("datetime", k_slots[i].start.v)
               /\ \A j \in 1..Len(k_slots) :
                      k_slots[j].start.t = "num" => PriceAt(i) <= PriceAt(j)

\* the hours of the block a function is about
BlockHours ==
    IF k_fn \in {"get_cheapest_3h_block", "_is_cheapest_3h_block_active",
                 "_is_tomorrow_cheapest_3h_block_active"}
    THEN 3 ELSE 4

\* the sum of the prices of the window of BlockHours slots from slot i on
WindowSum(i) == PriceSum(i + BlockHours - 1) - PriceSum(i - 1)

Windows == 1..(Len(k_slots) - BlockHours + 1)

\* the first window whose mean price is not greater than that of any other window
BestWindow ==
    CHOOSE i \in Windows :
        /\ \A j \in Windows : WindowSum(i) <= WindowSum(j)
        /\ \A j \in Windows : j < i => WindowSum(j) > WindowSum(i)

C28_ActiveInsideBlock ==
    (k_fn \in {"_is_cheapest_3h_block_active", "_is_cheapest_4h_block_active"}
     /\ NoNonePrice)
        => IF Len(k_slots) < BlockHours \/ k_slots[BestWindow].start.t # "num"
           THEN k_result = Tuple(FALSE, NoneResult, NoneResult)
           ELSE LET block_start == k_slots[BestWindow].start.v
                IN  /\ k_result.kind = "tuple"
                    /\ k_result.block_start = Res("datetime", block_start)
                    /\ k_result.block_end = Res("datetime", block_start + BlockHours * Hour)
                    /\ k_result.is_active
                           <=> /\ block_start <= k_now
                               /\ k_now < block_start + BlockHours * Hour

\* the block from 10:00 to 13:00 is active at 12:59:59
C28_Witness ==
    /\ k_fn = "_is_cheapest_3h_block_active"
    /\ k_now = SlotDay + At(12, 59, 59, Sub - 1)
    /\ k_result = Tuple(TRUE, Res("datetime", SlotDay + 10 * Hour),
                        Res("datetime", SlotDay + 13 * Hour))

\* C29: the sensor of tomorrow's block reports block_start and block_end whenever
\* tomorrow's slots contain a block, and reports active exactly when the clock has
\* passed the local midnight that begins the day of those slots and
\* block_start <= now < block_end
C29_TomorrowBlockBecomesActive ==
    (k_fn = "_is_tomorrow_cheapest_3h_block_active" /\ NoNonePrice
     /\ Len(k_slots) >= 3 /\ k_slots[BestWindow].start.t = "num")
        => LET block_start == k_slots[BestWindow].start.v
           IN  /\ k_result.kind = "tuple"
               /\ k_result.block_start = Res("datetime", block_start)
               /\ k_result.block_end = Res("datetime", block_start + 3 * Hour)
               /\ k_result.is_active
                      <=> /\ k_now >= start_of_local_day(block_start)
                          /\ block_start <= k_now
                          /\ k_now < block_start + 3 * Hour

-----------------------------------------------------------------------------
(* One refresh with the steps of its client call (api.py): the token, the  *)
(* request, the re-authentication after a 401 and the retried request      *)

AuthStatuses == {200, 201, 401, 429, 500}

\* OstromApiClient.async_authenticate for the status of the token endpoint's response
async_authenticate(status) ==
    IF status = 401
    THEN ClientResult("OstromAuthError", "Invalid client credentials", 0, <<>>)
    ELSE IF status = 429
    THEN ClientResult("OstromApiError", "Rate limit exceeded", 0, <<>>)
    ELSE IF status \notin {200, 201}
    THEN ClientResult("OstromApiError", "Authentication failed with status 500", 0, <<>>)
    ELSE ClientResult("token", "", 0, <<>>)

\* the token expires (datetime.now() reaches _token_expires_at) between two refreshes
TokenLater(token) == IF token = "valid" THEN {"valid", "expired"} ELSE {token}

\* a timer callback or async_request_refresh starts a refresh of a coordinator
async_refresh ==
    /\ a_pc = "idle"
    /\ \E c \in Coordinators, trigger \in {"timer", "request"} :
           a_call' = [coordinator |-> c, trigger |-> trigger, calls |-> 0]
    /\ a_token' \in TokenLater(a_token)
    /\ a_pc' = "_async_update_data"
    /\ a_sent' = <<>>
    /\ a_auth' = [before |-> 0, after |-> 0]
    /\ a_result' = None
    /\ UNCHANGED <<coordVars, tickVars, dataVars, calcVars, sharedVars>>

\* _async_update_data awaits the client: async_get_spot_prices or
\* async_get_energy_consumption enters _async_request
_async_update_data_await_client ==
    /\ a_pc = "_async_update_data"
    /\ a_call' = [a_call EXCEPT !.calls = @ + 1]
    /\ a_pc' = "_async_ensure_token"
    /\ UNCHANGED <<a_token, a_sent, a_auth, a_result,
                   coordVars, tickVars, dataVars, calcVars, sharedVars>>

\* "await self._async_ensure_token()": a token that is not valid is requested, and
\* what async_authenticate raises leaves _async_request
_async_ensure_token ==
    /\ a_pc = "_async_ensure_token"
    /\ IF a_token = "valid"
       THEN /\ a_pc' = "request"
            /\ UNCHANGED <<a_token, a_auth, a_result>>
       ELSE \E status \in AuthStatuses :
               /\ a_auth' = [a_auth EXCEPT !.before = @ + 1]
               /\ IF async_authenticate(status).kind = "token"
                  THEN a_token' = "valid" /\ a_pc' = "request" /\ UNCHANGED a_result
                  ELSE /\ a_result' = async_authenticate(status)
                       /\ a_pc' = "done"
                       /\ UNCHANGED a_token
    /\ UNCHANGED <<a_call, a_sent, coordVars, tickVars, dataVars, calcVars, sharedVars>>

\* the first "self._session.request(...)": a 401 drops the token, every other status
\* ends the call
session_request ==
    /\ a_pc = "request"
    /\ \E status \in HttpStatuses :
           /\ a_sent' = Append(a_sent, status)
           /\ IF status = 401
              THEN a_token' = "none" /\ a_pc' = "refresh" /\ UNCHANGED a_result
              ELSE /\ a_result' = StatusResult(status)
                   /\ a_pc' = "done"
                   /\ UNCHANGED a_token
    /\ UNCHANGED <<a_call, a_auth, coordVars, tickVars, dataVars, calcVars, sharedVars>>

\* "async with self._token_lock: if not self._is_token_valid(): await
\* self.async_authenticate()": the call of the other coordinator may have got a token
\* while this one waited for the lock
refresh_token ==
    /\ a_pc = "refresh"
    /\ \/ /\ a_token' = "valid"
          /\ a_pc' = "retry"
          /\ UNCHANGED <<a_auth, a_result>>
       \/ \E status \in AuthStatuses :
             /\ a_auth' = [a_auth EXCEPT !.after = @ + 1]
             /\ IF async_authenticate(status).kind = "token"
                THEN a_token' = "valid" /\ a_pc' = "retry" /\ UNCHANGED a_result
                ELSE /\ a_result' = async_authenticate(status)
                     /\ a_pc' = "done"
                     /\ UNCHANGED a_token
    /\ UNCHANGED <<a_call, a_sent, coordVars, tickVars, dataVars, calcVars, sharedVars>>

\* a retried request that gets a 401 refreshes the token and is sent again
AfterRetry_refresh_again(status) == IF status = 401 THEN "refresh" ELSE "done"

\* the retried request ends the call whatever its status
AfterRetry(status) == "done"

\* the second "self._session.request(...)", "Retry the request once"
session_request_retry ==
    /\ a_pc = "retry"
    /\ \E status \in HttpStatuses :
           /\ a_sent' = Append(a_sent, status)
           /\ a_result' = _async_request(401, status)
           /\ a_pc' = AfterRetry(status)
    /\ UNCHANGED <<a_call, a_token, a_auth, coordVars, tickVars, dataVars, calcVars, sharedVars>>

\* _async_update_data returns the processed data or raises UpdateFailed for what
\* the client raised; it has no loop, and the coordinator waits for its timer or a
\* refresh request
_async_update_data_exit ==
    /\ a_pc = "done"
    /\ a_pc' = "idle"
    /\ UNCHANGED <<a_call, a_token, a_sent, a_auth, a_result,
                   coordVars, tickVars, dataVars, calcVars, sharedVars>>

\* the client exists, no token was requested yet
InitApi ==
    /\ CoordIdle
    /\ TickIdle
    /\ DataIdle
    /\ CalcIdle
    /\ SharedIdle
    /\ a_pc = "idle"
    /\ a_call = [coordinator |-> "price", trigger |-> "none", calls |-> 0]
    /\ a_token = "none"
    /\ a_sent = <<>>
    /\ a_auth = [before |-> 0, after |-> 0]
    /\ a_result = None

NextApi ==
    \/ async_refresh
    \/ _async_update_data_await_client
    \/ _async_ensure_token
    \/ session_request
    \/ refresh_token
    \/ session_request_retry
    \/ _async_update_data_exit

SpecApi == InitApi /\ [][NextApi]_vars

-----------------------------------------------------------------------------
(* Properties of the client call (under SpecApi)                           *)

\* C30: retries are bounded: one client call sends at most two requests and
\* re-authenticates at most once -- a first 401 leads to one token refresh and one
\* retry, a second 401 raises OstromAuthError -- and a refresh that failed makes no
\* second client call: the next one comes with the next timer tick or an explicit
\* refresh request
C30_RetriesBounded ==
    /\ Len(a_sent) <= 2
    /\ a_auth.after <= 1
    /\ a_call.calls <= 1
    /\ Len(a_sent) = 2 => a_sent[1] = 401
    /\ a_auth.after = 1 => (Len(a_sent) >= 1 /\ a_sent[1] = 401)
    /\ (Len(a_sent) = 2 /\ a_sent[2] = 401) => a_result.kind = "OstromAuthError"
    /\ a_pc # "idle" => a_call.trigger \in {"timer", "request"}
    /\ (a_pc \in {"done", "idle"} /\ Len(a_sent) >= 1 /\ a_sent[1] = 401)
           => \/ Len(a_sent) = 2 /\ a_auth.after <= 1
              \/ /\ Len(a_sent) = 1
                 /\ a_auth.after = 1
                 /\ a_result.kind \in {"OstromAuthError", "OstromApiError"}

\* a refresh whose request and retried request both got a 401 has failed, after one
\* re-authentication, and the coordinator is idle
C30_Witness ==
    /\ a_pc = "idle"
    /\ a_sent = <<401, 401>>
    /\ a_auth.after = 1
    /\ a_call.calls = 1
    /\ a_result.kind = "OstromAuthError"

-----------------------------------------------------------------------------
(* Properties of the set-up, the timers and the shared client              *)

\* C34: at every moment each coordinator has at most one armed timer, whatever the
\* order of timer callbacks, refresh requests, refreshes that return or raise and
\* callbacks whose hass.async_create_task raises
C34_AtMostOneArmedTimer ==
    \A c \in Coordinators : Armed(c) <= 1

\* a timer callback failed to enqueue and armed the fallback timer, and a refresh
\* on demand is under way that will re-arm
C34_Witness ==
    /\ pc["price"] = "fetching"
    /\ Armed("price") = 1
    /\ handles["price"][1].origin = "callback"

\* C35: the coordinators' method _calculate_next_update_time returns the same
\* instant as the shared function calculate_next_update_time for every now, every
\* interval_minutes >= 1 and every integer offset_seconds (the method of the price
\* and of the consumption coordinator are one text)
C35_MethodEqualsShared ==
    (t_pc = "done" /\ t_interval >= 1) => t_method.time = t_shared.time

\* the tick _schedule_next_update arms when it runs at now
ArmedTick(now, interval_minutes, offset_seconds) ==
    now + ScheduleDelay(now, interval_minutes, offset_seconds)

\* C36: for every interval the configuration accepts (5 to 120 minutes for prices,
\* 15 to 1440 for consumption) and a refresh that completes right after its tick,
\* two consecutive armed ticks are exactly interval_minutes minutes apart
C36_TicksOneIntervalApart ==
    (t_pc = "done" /\ t_interval \in 5..1440 /\ t_offset \in 5..59)
        => LET first == ArmedTick(t_now, t_interval, t_offset)
               second == ArmedTick(first, t_interval, t_offset)
           IN  second - first = t_interval * Minute

\* async_setup_entry has stored hass.data[DOMAIN][entry.entry_id] and returned True
SetupReturnedTrue == setup = "done"

\* the first refresh of c ends in this step of async_setup_entry
FirstRefreshEnds(c) == setup = c /\ pc[c] = "returned" /\ pc'[c] = "idle"

\* C33: set-up creates the consumption coordinator exactly when a non-empty
\* contract id is configured; a first price refresh that fails aborts the set-up
\* (the exception propagates, no entry data is stored); a first consumption refresh
\* that fails does not: the set-up stores the entry data and returns True
C33_SetupByContractAndFirstRefresh ==
    /\ [](/\ contract_id = "" =>
                /\ ~pending["consumption"] /\ pc["consumption"] = "idle"
                /\ Armed("consumption") = 0 /\ setup # "consumption"
          /\ (contract_id # "" /\ SetupReturnedTrue /\ ~unloaded)
                => LoopAlive("consumption"))
    /\ [][/\ FirstRefreshEnds("price") =>
                IF outcome["price"].kind = "result"
                THEN setup' = (IF contract_id # "" THEN "consumption" ELSE "done")
                ELSE setup' = "price_failed"
          /\ setup = "price_failed" => setup' = "price_failed"
          /\ (FirstRefreshEnds("consumption") /\ outcome["consumption"].kind = "UpdateFailed")
                => SetupReturnedTrue']_vars

\* the first consumption refresh has failed with an API error and the caller is
\* about to take the exception
C33_Witness ==
    /\ contract_id # ""
    /\ setup = "consumption"
    /\ pc["consumption"] = "returned"
    /\ outcome["consumption"].kind = "UpdateFailed"
    /\ outcome["consumption"].prefix = "API error"

-----------------------------------------------------------------------------
(* The client shared by the coordinators: async_setup_entry hands one      *)
(* OstromApiClient to both, so the client call of a price refresh and the  *)
(* client call of a consumption refresh run as two tasks of one event loop *)
(* on one _access_token and one _token_lock.  A task runs without          *)
(* interruption from one await to the next.                                *)

\* a client that keeps what belongs to one call in a field of the client
Own_shared(field, c, value) == [d \in Coordinators |-> value]

\* what one _async_request call holds in its own frame (headers, response, what it
\* returns or raises): the call of coordinator c writes its own
Own(field, c, value) == [field EXCEPT ![c] = value]

\* a lock that excludes nobody
LockFree_ignored == TRUE

\* "async with self._token_lock" is entered at once when no task holds the lock
LockFree == s_lock = "free"

\* self._is_token_valid()
_is_token_valid == s_token = "valid"

\* "Authorization": f"Bearer {self._access_token}"
Bearer == IF s_token = "none" THEN "Bearer None" ELSE "Bearer token"

\* datetime.now() reaches _token_expires_at
token_expires ==
    /\ s_token = "valid"
    /\ s_token' = "expired"
    /\ UNCHANGED <<s_pc, s_lock, s_header, s_auth, s_result,
                   coordVars, tickVars, dataVars, calcVars, apiVars>>

\* _async_update_data of coordinator c awaits the client, which enters _async_request
shared_async_request(c) ==
    /\ s_pc[c] = "idle"
    /\ s_pc' = Own(s_pc, c, "_async_ensure_token")
    /\ s_header' = Own(s_header, c, "none")
    /\ s_auth' = Own(s_auth, c, 0)
    /\ s_result' = Own(s_result, c, None)
    /\ UNCHANGED <<s_token, s_lock, coordVars, tickVars, dataVars, calcVars, apiVars>>

\* the body of "async with self._token_lock": with a valid token the lock is left at
\* once and the request goes out; otherwise async_authenticate is awaited under
\* the lock
UnderLock(c, go_on, authenticating) ==
    IF _is_token_valid
    THEN /\ s_pc' = Own(s_pc, c, go_on)
         /\ s_header' = Own(s_header, c, Bearer)
         /\ UNCHANGED s_lock
    ELSE /\ s_pc' = Own(s_pc, c, authenticating)
         /\ s_lock' = c
         /\ UNCHANGED s_header

\* _async_ensure_token: the check without the lock, then the lock
shared_async_ensure_token(c) ==
    /\ s_pc[c] = "_async_ensure_token"
    /\ IF _is_token_valid
       THEN /\ s_pc' = Own(s_pc, c, "request")
            /\ s_header' = Own(s_header, c, Bearer)
            /\ UNCHANGED s_lock
       ELSE IF LockFree
       THEN UnderLock(c, "request", "ensure_authenticate")
       ELSE /\ s_pc' = Own(s_pc, c, "ensure_lock")
            /\ UNCHANGED <<s_lock, s_header>>
    /\ UNCHANGED <<s_token, s_auth, s_result,
                   coordVars, tickVars, dataVars, calcVars, apiVars>>

\* a call that waited for the lock gets it
acquire_token_lock(c) ==
    /\ s_pc[c] \in {"ensure_lock", "refresh_lock"}
    /\ LockFree
    /\ IF s_pc[c] = "ensure_lock"
       THEN UnderLock(c, "request", "ensure_authenticate")
       ELSE UnderLock(c, "retry", "refresh_authenticate")
    /\ UNCHANGED <<s_token, s_auth, s_result,
                   coordVars, tickVars, dataVars, calcVars, apiVars>>

\* the token endpoint answers the async_authenticate awaited under the lock: the
\* token is stored and the request goes out, or what it raises leaves _async_request
shared_async_authenticate(c) ==
    /\ s_pc[c] \in {"ensure_authenticate", "refresh_authenticate"}
    /\ \E status \in AuthStatuses :
           /\ s_auth' = Own(s_auth, c, s_auth[c] + 1)
           /\ s_lock' = "free"
           /\ IF async_authenticate(status).kind = "token"
              THEN /\ s_token' = "valid"
                   /\ s_header' = Own(s_header, c, "Bearer token")
                   /\ s_pc' = Own(s_pc, c, IF s_pc[c] = "ensure_authenticate"
                                           THEN "request" ELSE "retry")
                   /\ UNCHANGED s_result
              ELSE /\ s_result' = Own(s_result, c, async_authenticate(status))
                   /\ s_pc' = Own(s_pc, c, "done")
                   /\ UNCHANGED <<s_token, s_header>>
    /\ UNCHANGED <<coordVars, tickVars, dataVars, calcVars, apiVars>>

\* the response to the first request: a 401 drops the client's token and goes for
\* the lock, every other status ends the call
shared_session_request(c) ==
    /\ s_pc[c] = "request"
    /\ \E status \in HttpStatuses :
           IF status = 401
           THEN /\ s_token' = "none"
                /\ IF LockFree
                   THEN /\ s_pc' = Own(s_pc, c, "refresh_authenticate")
                        /\ s_lock' = c
                   ELSE /\ s_pc' = Own(s_pc, c, "refresh_lock")
                        /\ UNCHANGED s_lock
                /\ UNCHANGED s_result
           ELSE /\ s_result' = Own(s_result, c, StatusResult(status))
                /\ s_pc' = Own(s_pc, c, "done")
                /\ UNCHANGED <<s_token, s_lock>>
    /\ UNCHANGED <<s_header, s_auth, coordVars, tickVars, dataVars, calcVars, apiVars>>

\* the response to the retried request ends the call
shared_session_request_retry(c) ==
    /\ s_pc[c] = "retry"
    /\ \E status \in HttpStatuses :
           s_result' = Own(s_result, c, _async_request(401, status))
    /\ s_pc' = Own(s_pc, c, "done")
    /\ UNCHANGED <<s_token, s_lock, s_header, s_auth,
                   coordVars, tickVars, dataVars, calcVars, apiVars>>

\* the coordinator takes what the call returned or raised
shared_async_request_exit(c) ==
    /\ s_pc[c] = "done"
    /\ s_pc' = Own(s_pc, c, "idle")
    /\ UNCHANGED <<s_token, s_lock, s_header, s_auth, s_result,
                   coordVars, tickVars, dataVars, calcVars, apiVars>>

\* the client of async_setup_entry, no token requested yet
InitShared ==
    /\ CoordIdle
    /\ TickIdle
    /\ DataIdle
    /\ CalcIdle
    /\ ApiIdle
    /\ s_pc = [c \in Coordinators |-> "idle"]
    /\ s_token = "none"
    /\ s_lock = "free"
    /\ s_header = [c \in Coordinators |-> "none"]
    /\ s_auth = [c \in Coordinators |-> 0]
    /\ s_result = [c \in Coordinators |-> None]

NextShared ==
    \/ token_expires
    \/ \E c \in Coordinators : shared_async_request(c)
    \/ \E c \in Coordinators : shared_async_ensure_token(c)
    \/ \E c \in Coordinators : acquire_token_lock(c)
    \/ \E c \in Coordinators : shared_async_authenticate(c)
    \/ \E c \in Coordinators : shared_session_request(c)
    \/ \E c \in Coordinators : shared_session_request_retry(c)
    \/ \E c \in Coordinators : shared_async_request_exit(c)

SpecShared == InitShared /\ [][NextShared]_vars

-----------------------------------------------------------------------------
(* Properties of the shared client (under SpecShared)                      *)

Authenticating(c) == s_pc[c] \in {"ensure_authenticate", "refresh_authenticate"}

StepOf(c) == s_pc'[c] # s_pc[c]

\* the next step of the call reads the client's token or its lock
ReadsClient(c) == s_pc[c] \in {"_async_ensure_token", "ensure_lock", "refresh_lock"}

-----------------------------------------------------------------------------
(* Properties that relate the sensors' functions (under SpecCalc)          *)

\* C39: on every non-empty slot list, slots without a total_price included, the
\* total_price (0 when absent) of the slot whose start cheapest_hour returns is
\* min_price, and that of the slot most_expensive_hour returns is max_price
C39_ExtremeHourHasExtremePrice ==
    (k_slots # <<>> /\ NoNonePrice /\ k_result.kind = "datetime")
        => /\ k_fn = "_get_cheapest_hour" =>
                 \E i \in 1..Len(k_slots) :
                     /\ k_slots[i].start = Num(k_result.v)
                     /\ Round5(PriceAt(i), 1) = _get_min_price(k_slots).v
           /\ k_fn = "_get_most_expensive_hour" =>
                 \E i \in 1..Len(k_slots) :
                     /\ k_slots[i].start = Num(k_result.v)
                     /\ Round5(PriceAt(i), 1) = _get_max_price(k_slots).v

\* the slots are as a refresh stores and sorts them, no two for one hour
StoredInOrder ==
    /\ Stored(k_slots)
    /\ \A i \in 1..(Len(k_slots) - 1) : k_slots[i].start.v < k_slots[i + 1].start.v

\* C40: whenever the sensor of the cheapest 3-hour or 4-hour block reports active,
\* now lies inside one of the slots of the window chosen as cheapest, for every
\* slot list a refresh can produce, a day with a missing hour included
C40_ActiveInsideAChosenSlot ==
    (k_fn \in {"_is_cheapest_3h_block_active", "_is_cheapest_4h_block_active"}
     /\ StoredInOrder /\ k_result.kind = "tuple" /\ k_result.is_active)
        => \E j \in BestWindow..(BestWindow + BlockHours - 1) :
               /\ k_slots[j].start.v <= k_now
               /\ k_now < k_slots[j].start.v + Hour

-----------------------------------------------------------------------------
(* Price refreshes around local midnight in time zones whose UTC offset is *)
(* a whole number of hours or not; the provider's records start on whole   *)
(* UTC hours                                                               *)

\* utcoffset() of the local time zone: +01:00, +05:30, -03:30
ZoneOffsets == {Hour, 11 * (Hour \div 2), -(7 * (Hour \div 2))}

\* dt_util.now(): ten minutes after local midnight, in the morning, ten minutes
\* before the next midnight
ZoneNows == {TodayStart + At(0, 10, 0, 0), TodayStart + At(10, 7, 30, 0),
             TodayStart + At(23, 50, 0, 0)}

\* records of the hours that cover 00:10 local time in the three zones (18:00 UTC
\* of the day before, 23:00 UTC, 03:00 UTC), of the hour after the first, and of
\* 09:00 UTC
ZoneRecords ==
    {SpotPrice(IsoDate(TodayStart + k * Hour), Num(1500)) : k \in {-6, -5, -1, 3, 9}}

ZoneLists == Lists(ZoneRecords)

\* after the constructors of async_setup_entry, in one of the zones
InitZone ==
    /\ clock \in ZoneNows
    /\ lat = 0
    /\ poll_interval_minutes = [c \in Coordinators |-> IF c = "price" THEN 15 ELSE 60]
    /\ update_offset_seconds = [c \in Coordinators |-> 15]
    /\ handles = [c \in Coordinators |-> <<>>]
    /\ update_timer = [c \in Coordinators |-> "None"]
    /\ pending = [c \in Coordinators |-> FALSE]
    /\ pc = [c \in Coordinators |-> "idle"]
    /\ raised = [c \in Coordinators |-> NoError]
    /\ outcome = [c \in Coordinators |-> NoOutcome]
    /\ setup = "data"
    /\ contract_id = ""
    /\ shutdown_requested = [c \in Coordinators |-> FALSE]
    /\ unloaded = FALSE
    /\ enqueue_failures = 0
    /\ TickIdle
    /\ utc_offset \in ZoneOffsets
    /\ request = [c \in Coordinators |-> None]
    /\ http = [c \in Coordinators |-> None]
    /\ body = [c \in Coordinators |-> <<>>]
    /\ fetched = [c \in Coordinators |-> None]
    /\ data = [c \in Coordinators |-> None]
    /\ last_update_success = [c \in Coordinators |-> TRUE]
    /\ cost = [is_today \in BOOLEAN |-> [kind |-> "None", v |-> 0]]
    /\ CalcIdle
    /\ ApiIdle
    /\ SharedIdle

NextZone == PriceRefresh(ZoneLists)

SpecZone == InitZone /\ [][NextZone]_vars

\* C38: after a successful price refresh a current_slot that is present is an
\* element of today_slots of the same result, for every UTC offset of the local
\* time zone, offsets that are not a whole number of hours included, and every now
C38_CurrentSlotInTodaySlots ==
    (Succeeded("price") /\ data["price"].current_slot # None)
        => \E i \in 1..Len(data["price"].today_slots) :
               data["price"].today_slots[i] = data["price"].current_slot

-----------------------------------------------------------------------------
(* Availability of the entities (under SpecData)                           *)

\* the coordinator has been refreshed: the entities are added after the first
\* refreshes of async_setup_entry
RefreshedOnce(c) == request[c] # None

\* available of the sensors of one coordinator (OstromPriceSensor,
\* OstromConsumptionSensor, the binary sensors): they are CoordinatorEntity and
\* define no available, so it is coordinator.last_update_success
EntityAvailable(c) == last_update_success[c]

\* C31: an entity is unavailable while the last refresh of its coordinator failed
\* or the coordinator has no data yet, and available again once a refresh of that
\* coordinator has succeeded; the cost entity is available exactly when the last
\* refresh of both coordinators succeeded; and a refresh that failed has armed the
\* timer of a further attempt
C31_UnavailableUntilNextSuccess ==
    /\ [](\A c \in Coordinators :
             RefreshedOnce(c) =>
                 /\ (outcome[c].kind = "UpdateFailed" \/ data[c] = None)
                        => ~EntityAvailable(c)
                 /\ Succeeded(c) => (EntityAvailable(c) /\ data[c] # None)
                 /\ outcome[c].kind = "UpdateFailed"
                        => (Armed(c) = 1 /\ update_timer[c] = "armed"))
    /\ []((RefreshedOnce("price") /\ RefreshedOnce("consumption"))
             => \A is_today \in BOOLEAN :
                    cost[is_today].kind # "unavailable"
                        <=> (Succeeded("price") /\ Succeeded("consumption")))
    /\ [][\A c \in Coordinators :
             (~EntityAvailable(c) /\ outcome'[c] # outcome[c] /\ Succeeded(c)')
                 => EntityAvailable(c)']_vars

\* the price coordinator has data from an earlier refresh and its last refresh
\* failed: its entities and the cost entities are unavailable, the consumption
\* coordinator's are not
C31_Witness ==
    /\ data["price"] # None
    /\ outcome["price"].kind = "UpdateFailed"
    /\ ~EntityAvailable("price")
    /\ Succeeded("consumption") /\ EntityAvailable("consumption")
    /\ cost[TRUE].kind = "unavailable"
    /\ Armed("price") = 1
====
